---- MODULE Spec2Model ----
(***************************************************************************)
(* Idealista notify bot: URL normaliser (idealista/url_utils.py), seen-set *)
(* store (idealista/scraper.py), listing repository and its web API        *)
(* (webapp/), and the dispatch loops of the Telegram bot (bot.py).         *)
(*                                                                         *)
(* The specifications of the module share its variables:                   *)
(*   SpecUrl     the URL normaliser applied to bounded inputs              *)
(*   SpecSeen    the seen-set store of one process with its durable file   *)
(*   Spec        the bot process (timer task, event task, shared lock)     *)
(*               and the web process, both acting on the listings table    *)
(*   SpecStored  the same, starting from a table with stored records       *)
(*   SpecLive    the bot process alone, with the fairness of its tasks     *)
(*   SpecScrape  scrape_all_pages, scrape_listings and the exclusions      *)
(*   SpecPages   the URLs of the pages scrape_all_pages fetches            *)
(*   SpecPoll    run_polling against the update queue of the server        *)
(*   SpecSend    the sends of one call of send_listings                    *)
(***************************************************************************)
EXTENDS Integers, Sequences, FiniteSets, TLC

\* ------------------------------------------------------------------------
\* Strings are sequences of one-character strings, so that prefix tests and
\* stripping are computed as the code computes them.  A URL is modelled by
\* its path: scheme, host, query and fragment are carried through
\* urlsplit/urlunsplit unchanged.
\* ------------------------------------------------------------------------

MaxPathLen == 6

Alphabet == {"/", "r", "u", "x", " "}

Whitespace == {" ", "\n"}

BoundedSeq(S, n) == UNION {[1..k -> S] : k \in 0..n}

\* paths that urlsplit can return behind a host: empty or starting with "/"
Paths == {p \in BoundedSeq(Alphabet, MaxPathLen) : p = <<>> \/ p[1] = "/"}

RECURSIVE RStrip(_, _)
RStrip(s, chars) ==
    IF s # <<>> /\ s[Len(s)] \in chars
    THEN RStrip(SubSeq(s, 1, Len(s) - 1), chars)
    ELSE s

RECURSIVE LStrip(_, _)
LStrip(s, chars) ==
    IF s # <<>> /\ s[1] \in chars
    THEN LStrip(Tail(s), chars)
    ELSE s

\* str.strip()
Strip(s) == LStrip(RStrip(s, Whitespace), Whitespace)

StartsWith(s, prefix) ==
    /\ Len(s) >= Len(prefix)
    /\ SubSeq(s, 1, Len(prefix)) = prefix

RuPath == <<"/", "r", "u">>
RuSlash == <<"/", "r", "u", "/">>

\* strip_ru_prefix(url): the path of the returned URL
strip_ru_prefix(url) ==
    LET stripped == Strip(url)
        path == IF stripped = <<>> THEN <<"/">> ELSE stripped
    IN  IF path = RuPath THEN <<"/">>
        ELSE IF StartsWith(path, RuSlash)
             THEN SubSeq(path, Len(RuPath) + 1, Len(path))
             ELSE path

\* the URLs the other two specifications work with
X == <<"/", "x">>
RuX == <<"/", "r", "u", "/", "x">>

VARIABLES
    n_in,       \* SpecUrl: the URL handed to strip_ru_prefix
    n_calls,    \* SpecUrl: how many times strip_ru_prefix has been applied
    n_out,      \* SpecUrl: strip_ru_prefix(n_in) once n_calls >= 1
    n_twice     \* SpecUrl: strip_ru_prefix(n_out) once n_calls = 2

urlVars == <<n_in, n_calls, n_out, n_twice>>

UrlIdle ==
    /\ n_in = <<>>
    /\ n_calls = 0
    /\ n_out = <<>>
    /\ n_twice = <<>>

InitUrl ==
    /\ n_in \in Paths
    /\ n_calls = 0
    /\ n_out = <<>>
    /\ n_twice = <<>>

Normalize ==
    /\ n_calls = 0
    /\ n_calls' = 1
    /\ n_out' = strip_ru_prefix(n_in)
    /\ UNCHANGED <<n_in, n_twice>>

NormalizeAgain ==
    /\ n_calls = 1
    /\ n_calls' = 2
    /\ n_twice' = strip_ru_prefix(n_out)
    /\ UNCHANGED <<n_in, n_out>>

\* ------------------------------------------------------------------------
\* Seen-set store (idealista/scraper.py).  _seen_urls is None until the
\* first load; the durable copy is the set of lines of SEEN_LISTINGS_FILE.
\* Line order is not significant (save iterates a set), and a failed write
\* is modelled down to whole lines.
\* ------------------------------------------------------------------------

XSp == <<"/", "x", " ">>

\* the URLs handed to add_seen_url
SeenInputs == {X, RuX, XSp}

\* _seen_urls: loaded = FALSE stands for None
Unloaded == [loaded |-> FALSE, urls |-> {}]
Loaded(urls) == [loaded |-> TRUE, urls |-> urls]

\* SEEN_LISTINGS_FILE: exists = FALSE when os.path.exists is false
NoFile == [exists |-> FALSE, lines |-> {}]
File(lines) == [exists |-> TRUE, lines |-> lines]

\* f.write(url + "\n")
WriteLine(url) == Append(url, "\n")

\* the URLs a complete read of the file yields: line.strip(), blanks skipped
FileUrls(file) == {Strip(l) : l \in file.lines} \ {<<>>}

\* mutant: no test of the module global, the file is read at every call
LoadOutcomes_reread(mem, file) ==
    IF ~file.exists
    THEN {[mem |-> Loaded({}), err |-> FALSE]}
    ELSE {[mem |-> Loaded(FileUrls(file)), err |-> FALSE]}
         \cup {[mem |-> Loaded(S), err |-> TRUE] : S \in SUBSET FileUrls(file)}

\* load_seen_listings() opens the file: _seen_urls is None and the file exists
ReadsFile(mem, file) == ~mem.loaded /\ file.exists

\* mutant: the module global is only assigned after a complete read
LoadOutcomes_assign_after_read(mem, file) ==
    IF mem.loaded
    THEN {[mem |-> mem, err |-> FALSE]}
    ELSE IF ~file.exists
    THEN {[mem |-> Loaded({}), err |-> FALSE]}
    ELSE {[mem |-> Loaded(FileUrls(file)), err |-> FALSE],
          [mem |-> Unloaded, err |-> TRUE]}

\* load_seen_listings(): the resulting set, and whether the read raised; an
\* exception part-way keeps the lines read so far
LoadOutcomes(mem, file) ==
    IF mem.loaded
    THEN {[mem |-> mem, err |-> FALSE]}
    ELSE IF ~file.exists
    THEN {[mem |-> Loaded({}), err |-> FALSE]}
    ELSE {[mem |-> Loaded(FileUrls(file)), err |-> FALSE]}
         \cup {[mem |-> Loaded(S), err |-> TRUE] : S \in SUBSET FileUrls(file)}

\* save_seen_listings() with _seen_urls not None: the resulting file, whether
\* the write failed (logged, not raised): open() fails and the file stays, or
\* the file is truncated and only some lines get written; and whether
\* os.makedirs, which is called outside the try block, raised
SaveOutcomes(mem, file) ==
    LET lines == {WriteLine(u) : u \in mem.urls}
    IN  {[file |-> File(lines), err |-> FALSE, raised |-> FALSE]}
        \cup {[file |-> file, err |-> TRUE, raised |-> FALSE]}
        \cup {[file |-> File(S), err |-> TRUE, raised |-> FALSE] :
                 S \in SUBSET lines}
        \cup {[file |-> file, err |-> TRUE, raised |-> TRUE]}

\* what a call of add_seen_url is recorded as, from its load and its save
AddOp(ld, sv) ==
    CASE sv.raised -> "add_raised"
      [] sv.err -> "add_write_failed"
      [] ld.err -> "add_failed"
      [] OTHER -> "add"

VARIABLES
    s_mem,      \* _seen_urls
    s_file,     \* SEEN_LISTINGS_FILE
    s_hist,     \* the last calls on the store: [op, url, err, held]
    s_reads     \* how often this process has opened the file for reading

seenVars == <<s_mem, s_file, s_hist, s_reads>>

Hist(op, url, err, held) == [op |-> op, url |-> url, err |-> err, held |-> held]

SeenIdle ==
    /\ s_mem = Unloaded
    /\ s_file = NoFile
    /\ s_hist = Hist("none", <<>>, FALSE, FALSE)
    /\ s_reads = 0

InitSeen == SeenIdle

\* load_seen_listings()
load_seen_listings ==
    /\ \E out \in LoadOutcomes(s_mem, s_file) :
          /\ s_mem' = out.mem
          /\ s_hist' = Hist(CASE s_hist.op = "add_restart" -> "add_restart_load"
                              [] s_hist.op = "clear" -> "clear_load"
                              [] s_hist.op = "clear_restart" -> "clear_restart_load"
                              [] s_hist.op \in {"add_write_failed",
                                                "add_write_failed_load"}
                                   -> "add_write_failed_load"
                              [] OTHER -> "load",
                            s_hist.url, out.err, s_hist.held)
    /\ UNCHANGED s_file

\* save_seen_listings()
save_seen_listings ==
    /\ IF ~s_mem.loaded
       THEN UNCHANGED s_file
       ELSE \E out \in SaveOutcomes(s_mem, s_file) : s_file' = out.file
    /\ s_hist' = Hist("save", <<>>, FALSE, FALSE)
    /\ UNCHANGED s_mem

\* mutant: the file is rewritten before the URL is inserted
add_seen_url_save_first ==
    \E url \in SeenInputs :
      \E ld \in LoadOutcomes(s_mem, s_file) :
        \E sv \in SaveOutcomes(ld.mem, s_file) :
          /\ s_mem' = Loaded(ld.mem.urls \cup {url})
          /\ s_file' = sv.file
          /\ s_hist' = Hist(AddOp(ld, sv), url, ld.err \/ sv.err, FALSE)

\* add_seen_url(url)
add_seen_url ==
    \E url \in SeenInputs :
      \E ld \in LoadOutcomes(s_mem, s_file) :
        \E sv \in SaveOutcomes(Loaded(ld.mem.urls \cup {url}), s_file) :
          /\ s_mem' = Loaded(ld.mem.urls \cup {url})
          /\ s_file' = sv.file
          /\ s_hist' = Hist(AddOp(ld, sv), url, ld.err \/ sv.err, FALSE)

\* mutant: the in-memory set is reset but the file is left in place
clear_seen_listings_keep_file ==
    /\ s_mem' = Loaded({})
    /\ s_hist' = Hist("clear", <<>>, FALSE,
                      FileUrls(s_file) # {} /\ s_mem.urls # {})
    /\ UNCHANGED s_file

\* clear_seen_listings(): os.remove may raise, and then nothing is reset
clear_seen_listings ==
    \/ /\ s_file' = NoFile
       /\ s_mem' = Loaded({})
       /\ s_hist' = Hist("clear", <<>>, FALSE,
                         FileUrls(s_file) # {} /\ s_mem.urls # {})
    \/ /\ s_file.exists
       /\ s_hist' = Hist("clear_failed", <<>>, TRUE, FALSE)
       /\ UNCHANGED <<s_mem, s_file>>

\* the process ends and a new one starts: the module global is None again
Restart ==
    /\ s_mem' = Unloaded
    /\ s_hist' = Hist(CASE s_hist.op = "add" -> "add_restart"
                        [] s_hist.op = "clear" -> "clear_restart"
                        [] OTHER -> "restart",
                      s_hist.url, FALSE, s_hist.held)
    /\ UNCHANGED s_file

\* ------------------------------------------------------------------------
\* Listings table (webapp/database/models.py).  A row's id is its index in
\* db: ids are assigned in insertion order and no row is ever removed.  A
\* NULL idealista_url is the empty sequence.
\* ------------------------------------------------------------------------

NULL == <<>>

STAGE_PRELIMINARY == "preliminary"
STAGE_TO_BE_COMMUNICATED == "to_be_communicated"

STAGE_VALUES ==
    {"to_be_communicated", "message_sent", "called_by_phone", "in_progress",
     "agreed_on_viewing", "waiting_reply", "rejected", "preliminary", "deleted"}

Titles == {"t1", "t2"}

\* priority = Column(Integer, default=0): no insert in src/ sets it.
\* updated_at counts the UPDATE statements the row has received: each one
\* sets the column to now()
Row(url, title, stage, position) ==
    [url |-> url, title |-> title, stage |-> stage, position |-> position,
     priority |-> 0, updated_at |-> 0]

\* no row found / no row obtained
NoId == 0

Ids(table) == 1..Len(table)

MaxOf(S) == CHOOSE m \in S : \A x \in S : x <= m

MinOf(S) == CHOOSE m \in S : \A x \in S : m <= x

\* db.query(func.max(Listing.position)).filter(Listing.stage == stage).scalar() or 0
MaxPosition(table, stage) ==
    LET ps == {table[i].position : i \in {j \in Ids(table) : table[j].stage = stage}}
    IN  IF ps = {} THEN 0 ELSE MaxOf(ps)

\* db.query(Listing).filter(Listing.idealista_url == url).first(): id or NoId
FirstByUrl(table, url) ==
    LET hits == {i \in Ids(table) : table[i].url = url}
    IN  IF url = NULL \/ hits = {} THEN NoId ELSE MinOf(hits)

\* mutant: the column is not declared unique
UrlIsFree_not_unique(table, url, self) == TRUE

\* idealista_url = Column(String, unique=True, nullable=True): whether a row
\* self (NoId for an insert) may carry url
UrlIsFree(table, url, self) ==
    \/ url = NULL
    \/ \A i \in Ids(table) : i # self => table[i].url # url

\* no row loaded
NoRow == Row(NULL, "", "", 0)

\* the UPDATE a commit flushes for a loaded object: only the attributes whose
\* assigned value differs from the loaded one are written to the row, and
\* with them updated_at (onupdate=func.now()); no UPDATE when none differs
Flush(table, id, loaded, assigned) ==
    IF assigned = loaded THEN table
    ELSE [table EXCEPT ![id] =
            [f \in DOMAIN @ |->
                IF f = "updated_at" THEN @[f] + 1
                ELSE IF assigned[f] # loaded[f] THEN assigned[f] ELSE @[f]]]

\* ------------------------------------------------------------------------
\* Bot process (bot.py): the timer task run_scraper_loop and the event task
\* run_polling share scrape_lock and stop_event.
\* ------------------------------------------------------------------------

\* scrape cycles, inbound updates and web requests started, in total
MaxOps == 2

\* listings on one result page
MaxPageLen == 2

\* the notification count per URL saturates here
SentCap == 2

\* scrape_all_pages(max_pages=3)
max_pages == 3

\* scrape_all_pages(min_new_to_continue=25), scaled to the page length
MinNewToContinue == 1

\* the hrefs of the result pages; every one names the same dwelling
Hrefs == {X, RuX}

\* Listing.url of a scraped article: strip_ru_prefix(urljoin(base_url, href))
ListingUrl(href) == strip_ru_prefix(href)

ScrapedUrls == {ListingUrl(h) : h \in Hrefs}

Pages == BoundedSeq(Hrefs, MaxPageLen)

\* the (Listing, DBListing | None) pairs of check_and_notify
Saved(url, id, stage) == [url |-> url, id |-> id, stage |-> stage]

VARIABLES
    db,         \* the listings table
    lock,       \* scrape_lock: "free" or the task holding it
    stop,       \* stop_event.is_set()
    sent,       \* notifications delivered to the chat, per listing URL
    ops,        \* scrape cycles, inbound updates and web requests started
    t_pc,       \* timer task: position in run_scraper_loop / check_and_notify
    t_page,     \* scrape_all_pages: page
    t_listings, \* check_and_notify: listings
    t_i,        \* index of the listing being saved or sent
    t_maxpos,   \* save_listing_to_db: max_pos
    t_saved     \* check_and_notify: saved

timerVars == <<t_pc, t_page, t_listings, t_i, t_maxpos, t_saved>>

sharedVars == <<db, lock, stop, sent, ops>>

TimerLocalsReset ==
    /\ t_page' = 1
    /\ t_listings' = <<>>
    /\ t_i' = 1
    /\ t_maxpos' = 0
    /\ t_saved' = <<>>

\* pcs of the timer task inside "async with lock"
TimerLocked ==
    {"scrape", "filter", "save_existing", "save_maxpos", "save_commit",
     "send", "release", "raised", "failed"}

\* while not stop_event.is_set()
\* mutant: the loop test does not look at the stop signal
TimerLoop_no_stop ==
    /\ t_pc = "loop"
    /\ ops < MaxOps
    /\ ops' = ops + 1
    /\ t_pc' = "acquire"
    /\ UNCHANGED <<t_page, t_listings, t_i, t_maxpos, t_saved>>
    /\ UNCHANGED <<db, lock, stop, sent>>

TimerLoop ==
    /\ t_pc = "loop"
    /\ IF stop
       THEN t_pc' = "done" /\ UNCHANGED ops
       ELSE /\ ops < MaxOps
            /\ ops' = ops + 1
            /\ t_pc' = "acquire"
    /\ UNCHANGED <<t_page, t_listings, t_i, t_maxpos, t_saved>>
    /\ UNCHANGED <<db, lock, stop, sent>>

\* mutant: lock is None, the cycle starts without waiting for the lock
TimerAcquire_no_lock ==
    /\ t_pc = "acquire"
    /\ lock' = IF lock = "free" THEN "timer" ELSE lock
    /\ t_pc' = "scrape"
    /\ TimerLocalsReset
    /\ UNCHANGED <<db, stop, sent, ops>>

\* async with lock: (run_scraper_loop)
TimerAcquire ==
    /\ t_pc = "acquire"
    /\ lock = "free"
    /\ lock' = "timer"
    /\ t_pc' = "scrape"
    /\ TimerLocalsReset
    /\ UNCHANGED <<db, stop, sent, ops>>

\* one iteration of the page loop of scrape_all_pages, and the branches of
\* check_and_notify on its result once the loop ends
TimerScrapePage ==
    /\ t_pc = "scrape"
    /\ \/ \* scrape_listings returned ([], True): error_occurred, break
          /\ t_pc' = "failed"
          /\ UNCHANGED <<t_page, t_listings>>
       \/ \E page \in Pages :
            LET listings == [k \in 1..Len(page) |-> ListingUrl(page[k])]
                all == t_listings \o listings
                last == Len(listings) <= MinNewToContinue \/ t_page = max_pages
            IN  /\ t_listings' = all
                /\ t_page' = IF last THEN t_page ELSE t_page + 1
                /\ t_pc' = IF ~last THEN "scrape"
                           ELSE IF all = <<>> THEN "release" ELSE "filter"
    /\ UNCHANGED <<t_i, t_maxpos, t_saved>>
    /\ UNCHANGED sharedVars

\* mutant: the listings of the pages before the failure are processed
TimerScrapeFailed_keeps_partial ==
    /\ t_pc = "failed"
    /\ t_pc' = IF t_listings = <<>> THEN "release" ELSE "filter"
    /\ UNCHANGED <<t_page, t_listings, t_i, t_maxpos, t_saved>>
    /\ UNCHANGED sharedVars

\* check_and_notify: if error: logged, return
TimerScrapeFailed ==
    /\ t_pc = "failed"
    /\ t_pc' = "release"
    /\ UNCHANGED <<t_page, t_listings, t_i, t_maxpos, t_saved>>
    /\ UNCHANGED sharedVars

\* filter_new_listings(listings); its query has no except clause, an error
\* of the database propagates out of check_and_notify
TimerFilter ==
    /\ t_pc = "filter"
    /\ \/ LET existing_urls == {db[i].url : i \in Ids(db)}
              new == SelectSeq(t_listings, LAMBDA u : u \notin existing_urls)
          IN  /\ t_listings' = new
              /\ t_pc' = IF new = <<>> THEN "release" ELSE "save_existing"
       \/ /\ t_pc' = "raised"
          /\ UNCHANGED t_listings
    /\ UNCHANGED <<t_page, t_i, t_maxpos, t_saved>>
    /\ UNCHANGED sharedVars

\* the end of one save_listing_to_db call in the loop of check_and_notify
\* mutant: each listing is sent as soon as it has been saved
TimerSavedNext_send_at_once(entry) ==
    /\ t_saved' = Append(t_saved, entry)
    /\ t_i' = t_i
    /\ t_pc' = "send"

TimerSavedNext(entry) ==
    /\ t_saved' = Append(t_saved, entry)
    /\ IF t_i = Len(t_listings)
       THEN t_i' = 1 /\ t_pc' = "send"
       ELSE t_i' = t_i + 1 /\ t_pc' = "save_existing"

\* save_listing_to_db: the query for an existing row
TimerSaveExisting ==
    /\ t_pc = "save_existing"
    /\ LET existing == FirstByUrl(db, t_listings[t_i])
       IN  IF existing # NoId
           THEN TimerSavedNext(Saved(t_listings[t_i], existing, db[existing].stage))
           ELSE t_pc' = "save_maxpos" /\ UNCHANGED <<t_i, t_saved>>
    /\ UNCHANGED <<t_page, t_listings, t_maxpos>>
    /\ UNCHANGED sharedVars

\* save_listing_to_db: max_pos
TimerSaveMaxPos ==
    /\ t_pc = "save_maxpos"
    /\ t_maxpos' = MaxPosition(db, STAGE_PRELIMINARY)
    /\ t_pc' = "save_commit"
    /\ UNCHANGED <<t_page, t_listings, t_i, t_saved>>
    /\ UNCHANGED sharedVars

\* save_listing_to_db: db.add, db.commit; on an exception rollback and None
TimerSaveCommit ==
    /\ t_pc = "save_commit"
    /\ \/ /\ UrlIsFree(db, t_listings[t_i], NoId)
          /\ db' = Append(db, Row(t_listings[t_i], "t1", STAGE_PRELIMINARY,
                                  t_maxpos + 1))
          /\ TimerSavedNext(Saved(t_listings[t_i], Len(db) + 1, STAGE_PRELIMINARY))
       \/ /\ UNCHANGED db
          /\ TimerSavedNext(Saved(t_listings[t_i], NoId, ""))
    /\ UNCHANGED <<t_page, t_listings, t_maxpos>>
    /\ UNCHANGED <<lock, stop, sent, ops>>

\* mutant: the inline action for every persisted record
build_listing_markup_any_stage(db_listing) ==
    IF db_listing.id = NoId THEN NoId ELSE db_listing.id

\* build_listing_markup(db_listing): None without a record or with a record
\* of another stage, else one button with callback data "promote:<id>"
build_listing_markup(db_listing) ==
    IF db_listing.id = NoId \/ db_listing.stage # STAGE_PRELIMINARY
    THEN NoId
    ELSE db_listing.id

\* send_listings: one listing of the batch; a send may fail (logged)
TimerSend ==
    /\ t_pc = "send"
    /\ \E delivered \in BOOLEAN :
          sent' = IF delivered
                  THEN [sent EXCEPT ![t_saved[t_i].url] =
                            IF @ < SentCap THEN @ + 1 ELSE @]
                  ELSE sent
    /\ IF t_i = Len(t_saved)
       THEN t_i' = 1 /\ t_pc' = "release"
       ELSE t_i' = t_i + 1 /\ t_pc' = "send"
    /\ UNCHANGED <<t_page, t_listings, t_maxpos, t_saved>>
    /\ UNCHANGED <<db, lock, stop, ops>>

\* the end of "async with lock"; the locals of the cycle go out of scope
TimerRelease ==
    /\ t_pc = "release"
    /\ lock' = "free"
    /\ t_pc' = "sleep"
    /\ TimerLocalsReset
    /\ UNCHANGED <<db, stop, sent, ops>>

\* mutant: the lock is taken with acquire() and released only on return
TimerExcept_keeps_lock ==
    /\ t_pc = "raised"
    /\ t_pc' = "sleep"
    /\ TimerLocalsReset
    /\ UNCHANGED <<db, lock, stop, sent, ops>>

\* mutant: no except clause around the cycle, the exception ends the task
TimerExcept_uncaught ==
    /\ t_pc = "raised"
    /\ lock' = "free"
    /\ t_pc' = "done"
    /\ TimerLocalsReset
    /\ UNCHANGED <<db, stop, sent, ops>>

\* an exception leaves "async with lock" (the lock is released) and is
\* caught by "except Exception" in run_scraper_loop: logged, then the delay
TimerExcept ==
    /\ t_pc = "raised"
    /\ lock' = "free"
    /\ t_pc' = "sleep"
    /\ TimerLocalsReset
    /\ UNCHANGED <<db, stop, sent, ops>>

\* asyncio.wait_for(stop_event.wait(), timeout=delay) returns or times out
TimerWake ==
    /\ t_pc = "sleep"
    /\ t_pc' = "loop"
    /\ UNCHANGED <<t_page, t_listings, t_i, t_maxpos, t_saved>>
    /\ UNCHANGED sharedVars

\* ------------------------------------------------------------------------
\* Event task: run_polling, _handle_message, _handle_callback
\* ------------------------------------------------------------------------

\* updates per get_updates batch
MaxBatch == 1

XDot == <<"/", "x", ".">>

TRAILING_PUNCTUATION == {".", ",", ")", ">", "]"}

\* the URLs IDEALISTA_URL_RE finds in a message text
ChatTokens == {X, RuX, XDot}

\* sorted(): the order of the URLs of the model as strings
UrlOrder == <<RuX, X, XDot>>

\* _extract_idealista_urls(text), then sorted(set(urls))
ExtractSorted(tokens) ==
    LET urls == {RStrip(t, TRAILING_PUNCTUATION) : t \in tokens} \ {<<>>}
    IN  SelectSeq(UrlOrder, LAMBDA u : u \in urls)

\* the record ids a promote callback may carry
CallbackIds == 1..2

Update(kind, id, tokens) == [kind |-> kind, id |-> id, tokens |-> tokens]

\* inbound updates: a message with URLs, a message without, a promote
\* callback, a promote callback whose id part is not made of digits
\* ("promote:x"), one whose id part is a digit character that is not a
\* decimal ("promote:" and a superscript two), and another callback
Updates ==
    {Update("message", NoId, ts) : ts \in SUBSET ChatTokens}
    \cup {Update("promote", id, {}) : id \in CallbackIds}
    \cup {Update("promote_invalid", NoId, {}),
          Update("promote_superscript", NoId, {}),
          Update("other_callback", NoId, {})}

\* data.startswith("promote:")
HasPrefix(update) ==
    update.kind \in {"promote", "promote_invalid", "promote_superscript"}

\* listing_id_raw.isdigit(): true of every character with the Unicode
\* property Digit, the superscripts among them
isdigit(update) == update.kind \in {"promote", "promote_superscript"}

\* int(listing_id_raw) raises ValueError: only decimal characters convert
IntRaises(update) == update.kind = "promote_superscript"

VARIABLES
    e_pc,       \* event task: position in run_polling and the handlers
    e_batch,    \* run_polling: the updates of the batch not yet handled
    e_urls,     \* _handle_message: the URLs still to import
    e_url,      \* create_listing_from_url: url
    e_title,    \* create_listing_from_url: listing_data["title"]
    e_id,       \* existing.id / listing_id, NoId when no row was found
    e_loaded,   \* the row as loaded by the query
    e_maxpos,   \* max_pos
    e_status,   \* status of create_listing_from_url / update_listing_stage
    e_result    \* id of the row returned, NoId for None

eventVars ==
    <<e_pc, e_batch, e_urls, e_url, e_title, e_id, e_loaded,
      e_maxpos, e_status, e_result>>

\* pcs of the event task inside "async with lock"
EventLocked ==
    {"imp_parse", "imp_existing", "imp_maxpos", "imp_commit", "msg_release",
     "cb_query", "cb_maxpos", "cb_commit", "cb_release"}

EventLocalsReset ==
    /\ e_title' = ""
    /\ e_id' = NoId
    /\ e_loaded' = NoRow
    /\ e_maxpos' = 0
    /\ e_status' = ""
    /\ e_result' = NoId

\* while not stop_event.is_set(): updates = await bot.get_updates(...)
EventPoll ==
    /\ e_pc = "poll"
    /\ IF stop
       THEN e_pc' = "done" /\ UNCHANGED <<e_batch, ops>>
       ELSE \/ \E batch \in BoundedSeq(Updates, MaxBatch) :
                 /\ ops + Len(batch) <= MaxOps
                 /\ batch # <<>>
                 /\ e_batch' = batch
                 /\ ops' = ops + Len(batch)
                 /\ e_pc' = "dispatch"
            \/ \* get_updates raises
               /\ e_pc' = "except"
               /\ UNCHANGED <<e_batch, ops>>
    /\ UNCHANGED <<e_urls, e_url, e_title, e_id, e_loaded, e_maxpos,
                   e_status, e_result>>
    /\ UNCHANGED <<db, lock, stop, sent, timerVars>>

\* for update in updates: the handler chosen, up to its first lock
EventDispatch ==
    /\ e_pc = "dispatch"
    /\ IF e_batch = <<>>
       THEN /\ e_pc' = "poll"
            /\ UNCHANGED <<e_batch, e_urls, e_url, e_id>>
       ELSE LET update == Head(e_batch)
                urls == ExtractSorted(update.tokens)
            IN  CASE update.kind = "message" /\ urls # <<>> ->
                          /\ e_pc' = "msg_acquire"
                          /\ e_url' = Head(urls)
                          /\ e_urls' = Tail(urls)
                          /\ e_id' = NoId
                          /\ e_batch' = Tail(e_batch)
                     [] update.kind = "message" /\ urls = <<>> ->
                          /\ e_pc' = "dispatch"
                          /\ e_batch' = Tail(e_batch)
                          /\ UNCHANGED <<e_urls, e_url, e_id>>
                     [] update.kind # "message" /\ ~HasPrefix(update) ->
                          /\ e_pc' = "dispatch"
                          /\ e_batch' = Tail(e_batch)
                          /\ UNCHANGED <<e_urls, e_url, e_id>>
                     [] HasPrefix(update) /\ ~isdigit(update) ->
                          /\ e_pc' = "cb_invalid"
                          /\ e_batch' = Tail(e_batch)
                          /\ UNCHANGED <<e_urls, e_url, e_id>>
                     [] HasPrefix(update) /\ isdigit(update)
                          /\ IntRaises(update) ->
                          \* ValueError out of _handle_callback and of the
                          \* loop over the batch
                          /\ e_pc' = "except"
                          /\ e_batch' = <<>>
                          /\ UNCHANGED <<e_urls, e_url, e_id>>
                     [] HasPrefix(update) /\ isdigit(update)
                          /\ ~IntRaises(update) ->
                          /\ e_pc' = "cb_acquire"
                          /\ e_id' = update.id
                          /\ e_batch' = Tail(e_batch)
                          /\ UNCHANGED <<e_urls, e_url>>
    /\ UNCHANGED <<e_title, e_loaded, e_maxpos, e_status, e_result>>
    /\ UNCHANGED <<sharedVars, timerVars>>

\* _handle_callback: callback_query.answer("Invalid action."), which may raise
EventCbInvalid ==
    /\ e_pc = "cb_invalid"
    /\ \/ /\ e_pc' = "dispatch"
          /\ UNCHANGED e_batch
       \/ /\ e_pc' = "except"
          /\ e_batch' = <<>>
    /\ UNCHANGED <<e_urls, e_url, e_title, e_id,
                   e_loaded, e_maxpos, e_status, e_result>>
    /\ UNCHANGED <<sharedVars, timerVars>>

\* mutant: lock is None, the import runs without taking the lock
EventMsgAcquire_no_lock ==
    /\ e_pc = "msg_acquire"
    /\ e_pc' = "imp_parse"
    /\ UNCHANGED <<e_batch, e_urls, e_url, e_title, e_id,
                   e_loaded, e_maxpos, e_status, e_result>>
    /\ UNCHANGED <<sharedVars, timerVars>>

\* async with lock: (_handle_message)
EventMsgAcquire ==
    /\ e_pc = "msg_acquire"
    /\ lock = "free"
    /\ lock' = "event"
    /\ e_pc' = "imp_parse"
    /\ UNCHANGED <<e_batch, e_urls, e_url, e_title, e_id,
                   e_loaded, e_maxpos, e_status, e_result>>
    /\ UNCHANGED <<db, stop, sent, ops, timerVars>>

\* create_listing_from_url: listing_data = await parse_idealista_url(url)
EventImportParse ==
    /\ e_pc = "imp_parse"
    /\ \/ /\ e_status' = "scrape_failed"
          /\ e_pc' = "msg_release"
          /\ UNCHANGED e_title
       \/ \E title \in Titles :
            /\ e_title' = title
            /\ e_pc' = "imp_existing"
            /\ UNCHANGED e_status
    /\ UNCHANGED <<e_batch, e_urls, e_url, e_id, e_loaded,
                   e_maxpos, e_result>>
    /\ UNCHANGED <<sharedVars, timerVars>>

\* create_listing_from_url: existing
EventImportExisting ==
    /\ e_pc = "imp_existing"
    /\ \/ /\ e_id' = FirstByUrl(db, e_url)
          /\ e_loaded' = IF e_id' = NoId THEN NoRow ELSE db[e_id']
          /\ e_pc' = "imp_maxpos"
          /\ UNCHANGED e_status
       \/ \* SessionLocal() raises, outside the try of create_listing_from_url:
          \* the exception leaves "async with lock" and _handle_message
          \* catches it
          /\ e_status' = "raised"
          /\ e_pc' = "msg_release"
          /\ UNCHANGED <<e_id, e_loaded>>
    /\ UNCHANGED <<e_batch, e_urls, e_url, e_title, e_maxpos, e_result>>
    /\ UNCHANGED <<sharedVars, timerVars>>

\* create_listing_from_url: max_pos
EventImportMaxPos ==
    /\ e_pc = "imp_maxpos"
    /\ e_maxpos' = MaxPosition(db, STAGE_TO_BE_COMMUNICATED)
    /\ e_pc' = "imp_commit"
    /\ UNCHANGED <<e_batch, e_urls, e_url, e_title, e_id,
                   e_loaded, e_status, e_result>>
    /\ UNCHANGED <<sharedVars, timerVars>>

\* mutant: the existing row is not consulted, a row is always inserted
EventImportCommit_always_insert ==
    /\ e_pc = "imp_commit"
    /\ \/ /\ UrlIsFree(db, e_url, NoId)
          /\ db' = Append(db, Row(e_url, e_title, STAGE_TO_BE_COMMUNICATED,
                                  e_maxpos + 1))
          /\ e_status' = "created"
          /\ e_result' = Len(db) + 1
       \/ /\ e_status' = "error"
          /\ e_result' = NoId
          /\ UNCHANGED db
    /\ e_pc' = "msg_release"
    /\ UNCHANGED <<e_batch, e_urls, e_url, e_title, e_id,
                   e_loaded, e_maxpos>>
    /\ UNCHANGED <<lock, stop, sent, ops, timerVars>>

\* create_listing_from_url: promote the existing row, report it, or insert
EventImportCommit ==
    /\ e_pc = "imp_commit"
    /\ IF e_id # NoId
       THEN IF e_loaded.stage # STAGE_TO_BE_COMMUNICATED
            THEN \/ /\ db' = Flush(db, e_id, e_loaded,
                                   [e_loaded EXCEPT
                                      !.stage = STAGE_TO_BE_COMMUNICATED,
                                      !.position = e_maxpos + 1])
                    /\ e_status' = "promoted"
                    /\ e_result' = e_id
                 \/ /\ e_status' = "error"
                    /\ e_result' = NoId
                    /\ UNCHANGED db
            ELSE /\ e_status' = "exists"
                 /\ e_result' = e_id
                 /\ UNCHANGED db
       ELSE \/ /\ UrlIsFree(db, e_url, NoId)
               /\ db' = Append(db, Row(e_url, e_title, STAGE_TO_BE_COMMUNICATED,
                                       e_maxpos + 1))
               /\ e_status' = "created"
               /\ e_result' = Len(db) + 1
            \/ /\ e_status' = "error"
               /\ e_result' = NoId
               /\ UNCHANGED db
    /\ e_pc' = "msg_release"
    /\ UNCHANGED <<e_batch, e_urls, e_url, e_title, e_id,
                   e_loaded, e_maxpos>>
    /\ UNCHANGED <<lock, stop, sent, ops, timerVars>>

\* the end of "async with lock" in _handle_message
EventMsgRelease ==
    /\ e_pc = "msg_release"
    /\ lock' = "free"
    /\ e_pc' = "msg_reply"
    /\ UNCHANGED <<e_batch, e_urls, e_url, e_title, e_id,
                   e_loaded, e_maxpos, e_status, e_result>>
    /\ UNCHANGED <<db, stop, sent, ops, timerVars>>

\* _handle_message: the reply for status, then the next URL of the message;
\* status and listing go out of scope
EventMsgReply ==
    /\ e_pc = "msg_reply"
    /\ \/ /\ IF e_urls = <<>>
             THEN e_pc' = "dispatch" /\ e_url' = NULL /\ UNCHANGED e_urls
             ELSE /\ e_pc' = "msg_acquire"
                  /\ e_url' = Head(e_urls)
                  /\ e_urls' = Tail(e_urls)
          /\ UNCHANGED e_batch
       \/ \* bot.send_message raises: out of _handle_message and of the loop
          \* over the batch
          /\ e_pc' = "except"
          /\ e_urls' = <<>>
          /\ e_url' = NULL
          /\ e_batch' = <<>>
    /\ EventLocalsReset
    /\ UNCHANGED <<sharedVars, timerVars>>

\* async with lock: (_handle_callback)
EventCbAcquire ==
    /\ e_pc = "cb_acquire"
    /\ lock = "free"
    /\ lock' = "event"
    /\ e_pc' = "cb_query"
    /\ UNCHANGED <<e_batch, e_urls, e_url, e_title, e_id,
                   e_loaded, e_maxpos, e_status, e_result>>
    /\ UNCHANGED <<db, stop, sent, ops, timerVars>>

\* update_listing_stage: the query for the row, not_found and already
EventCbQuery ==
    /\ e_pc = "cb_query"
    /\ IF e_id \notin Ids(db)
       THEN e_status' = "not_found" /\ e_pc' = "cb_release" /\ UNCHANGED e_loaded
       ELSE IF db[e_id].stage = STAGE_TO_BE_COMMUNICATED
       THEN e_status' = "already" /\ e_pc' = "cb_release" /\ e_loaded' = db[e_id]
       ELSE e_pc' = "cb_maxpos" /\ e_loaded' = db[e_id] /\ UNCHANGED e_status
    /\ UNCHANGED <<e_batch, e_urls, e_url, e_title, e_id,
                   e_maxpos, e_result>>
    /\ UNCHANGED <<sharedVars, timerVars>>

\* update_listing_stage: max_pos
EventCbMaxPos ==
    /\ e_pc = "cb_maxpos"
    /\ e_maxpos' = MaxPosition(db, STAGE_TO_BE_COMMUNICATED)
    /\ e_pc' = "cb_commit"
    /\ UNCHANGED <<e_batch, e_urls, e_url, e_title, e_id,
                   e_loaded, e_status, e_result>>
    /\ UNCHANGED <<sharedVars, timerVars>>

\* mutant: no rollback, the stage assigned before the failed commit stays
EventCbCommit_no_rollback ==
    /\ e_pc = "cb_commit"
    /\ \/ /\ db' = Flush(db, e_id, e_loaded,
                         [e_loaded EXCEPT !.stage = STAGE_TO_BE_COMMUNICATED,
                                          !.position = e_maxpos + 1])
          /\ e_status' = "updated"
       \/ /\ e_status' = "error"
          /\ db' = Flush(db, e_id, e_loaded,
                         [e_loaded EXCEPT !.stage = STAGE_TO_BE_COMMUNICATED])
    /\ e_pc' = "cb_release"
    /\ UNCHANGED <<e_batch, e_urls, e_url, e_title, e_id,
                   e_loaded, e_maxpos, e_result>>
    /\ UNCHANGED <<lock, stop, sent, ops, timerVars>>

\* update_listing_stage: the assignments and db.commit()
EventCbCommit ==
    /\ e_pc = "cb_commit"
    /\ \/ /\ db' = Flush(db, e_id, e_loaded,
                         [e_loaded EXCEPT !.stage = STAGE_TO_BE_COMMUNICATED,
                                          !.position = e_maxpos + 1])
          /\ e_status' = "updated"
       \/ /\ e_status' = "error"
          /\ UNCHANGED db
    /\ e_pc' = "cb_release"
    /\ UNCHANGED <<e_batch, e_urls, e_url, e_title, e_id,
                   e_loaded, e_maxpos, e_result>>
    /\ UNCHANGED <<lock, stop, sent, ops, timerVars>>

\* the end of "async with lock" in _handle_callback
EventCbRelease ==
    /\ e_pc = "cb_release"
    /\ lock' = "free"
    /\ e_pc' = "cb_answer"
    /\ UNCHANGED <<e_batch, e_urls, e_url, e_title, e_id,
                   e_loaded, e_maxpos, e_status, e_result>>
    /\ UNCHANGED <<db, stop, sent, ops, timerVars>>

\* _handle_callback: callback_query.answer(...) for result
EventCbAnswer ==
    /\ e_pc = "cb_answer"
    /\ \/ /\ e_pc' = "dispatch"
          /\ UNCHANGED e_batch
       \/ \* callback_query.answer raises
          /\ e_pc' = "except"
          /\ e_batch' = <<>>
    /\ EventLocalsReset
    /\ UNCHANGED <<e_urls, e_url>>
    /\ UNCHANGED <<sharedVars, timerVars>>

\* mutant: no except clause in run_polling, the exception ends the task
EventExcept_uncaught ==
    /\ e_pc = "except"
    /\ e_pc' = "done"
    /\ UNCHANGED <<e_batch, e_urls, e_url, e_title, e_id,
                   e_loaded, e_maxpos, e_status, e_result>>
    /\ UNCHANGED <<sharedVars, timerVars>>

\* run_polling: except Exception, logged, asyncio.sleep(2), the loop test
EventExcept ==
    /\ e_pc = "except"
    /\ e_pc' = "poll"
    /\ UNCHANGED <<e_batch, e_urls, e_url, e_title, e_id,
                   e_loaded, e_maxpos, e_status, e_result>>
    /\ UNCHANGED <<sharedVars, timerVars>>

EventIdle ==
    /\ e_pc = "poll"
    /\ e_batch = <<>>
    /\ e_urls = <<>>
    /\ e_url = NULL
    /\ e_title = ""
    /\ e_id = NoId
    /\ e_loaded = NoRow
    /\ e_maxpos = 0
    /\ e_status = ""
    /\ e_result = NoId

\* ------------------------------------------------------------------------
\* Web process (webapp/api/routes.py, webapp/services/listing_service.py),
\* started next to the bot by run.py.  The handlers are coroutines that
\* never suspend, so the process serves one request at a time; each of its
\* queries and commits is a step of its own against the table it shares
\* with the bot process.
\* ------------------------------------------------------------------------

\* the record ids a request may name
WebIds == 1..2

Req(op, id, url, title, stage, position, ids, fields) ==
    [op |-> op, id |-> id, url |-> url, title |-> title, stage |-> stage,
     position |-> position, ids |-> ids, fields |-> fields, priority |-> 0]

NoReq == Req("", NoId, NULL, "", "", 0, <<>>, {})

\* POST /listings: ListingCreate, stage is any string
CreateRequests ==
    {Req("create", NoId, u, "t2", st, 0, <<>>, {}) :
        u \in {NULL, X, RuX},
        st \in {STAGE_TO_BE_COMMUNICATED, STAGE_PRELIMINARY, "archived"}}

\* PUT /listings/{id}: ListingUpdate with the fields that were sent
UpdateRequests ==
    {Req("update", id, NULL, "t2", "", 0, <<>>, {"title"}) : id \in WebIds}
    \cup {Req("update", id, u, "", "", 0, <<>>, {"url"}) :
            id \in WebIds, u \in {X, RuX}}
    \cup {[Req("update", id, NULL, "", "", 0, <<>>, {"priority"})
                EXCEPT !.priority = 1] : id \in WebIds}

\* DELETE /listings/{id}
DeleteRequests == {Req("delete", id, NULL, "", "", 0, <<>>, {}) : id \in WebIds}

\* PATCH /listings/{id}/stage: StageUpdate
StageRequests ==
    {Req("update_stage", id, NULL, "", st, pos, <<>>, {}) :
        id \in WebIds, st \in {STAGE_PRELIMINARY, "rejected", "no_such_stage"},
        pos \in {0, 3}}

\* POST /listings/reorder/{stage}: ReorderRequest
ReorderRequests ==
    {Req("reorder", NoId, NULL, "", st, 0, ids, {}) :
        st \in {STAGE_TO_BE_COMMUNICATED, STAGE_PRELIMINARY},
        ids \in {<<2, 1>>, <<1, 1>>, <<1, 2>>}}

\* POST /listings/import-url: UrlImportRequest
ImportRequests ==
    {Req("import", NoId, u, "", "", 0, <<>>, {}) : u \in {X, RuX}}

\* POST /webhook/telegram: WebhookPayload
WebhookRequests ==
    {Req("webhook", NoId, u, "t1", STAGE_TO_BE_COMMUNICATED, 0, <<>>, {}) :
        u \in {NULL, X, RuX}}

\* GET /listings
ListRequests == {Req("list", NoId, NULL, "", "", 0, <<>>, {})}

Requests ==
    CreateRequests \cup UpdateRequests \cup DeleteRequests \cup StageRequests
    \cup ReorderRequests \cup ImportRequests \cup WebhookRequests
    \cup ListRequests

\* the body of a response that is not a mapping by stage
NoGrouped == [st \in STAGE_VALUES |-> <<>>]

\* a response: the handler, its status, the id of the row it returns, the
\* id of the row its duplicate check found, and for GET /listings the ids
\* of the listings under each key
Resp(op, status, id, found) ==
    [op |-> op, status |-> status, id |-> id, found |-> found,
     grouped |-> NoGrouped]

NoResp == Resp("", "", NoId, NoId)

\* a card whose position reorder_column has assigned
Dirty(id, loaded, position) == [id |-> id, loaded |-> loaded, position |-> position]

VARIABLES
    w_pc,       \* web process: "idle" or the position in the handler
    w_req,      \* the request being served
    w_id,       \* the id of the row a query returned, NoId for None
    w_loaded,   \* that row as loaded
    w_maxpos,   \* max_pos
    w_k,        \* reorder_column: cards of card_ids handled
    w_dirty,    \* reorder_column: the loaded cards with their new position
    w_resp      \* the last response

webVars == <<w_pc, w_req, w_id, w_loaded, w_maxpos, w_k, w_dirty, w_resp>>

\* pcs of the web process at which it commits
WebCommit ==
    {"svc_commit", "update_commit", "delete_commit", "stage_commit",
     "reorder_commit"}

WebIdle ==
    /\ w_pc = "idle"
    /\ w_req = NoReq
    /\ w_id = NoId
    /\ w_loaded = NoRow
    /\ w_maxpos = 0
    /\ w_k = 0
    /\ w_dirty = <<>>
    /\ w_resp = NoResp

\* the handler returns or raises: the response, and the session is closed
WebReturn(resp) ==
    /\ w_pc' = "idle"
    /\ w_req' = NoReq
    /\ w_id' = NoId
    /\ w_loaded' = NoRow
    /\ w_maxpos' = 0
    /\ w_k' = 0
    /\ w_dirty' = <<>>
    /\ w_resp' = resp

WebRespondFound(status, id, found) ==
    WebReturn(Resp(w_req.op, status, id, found))

WebRespond(status, id) == WebRespondFound(status, id, NoId)

\* a request arrives and its handler starts
WebRequest ==
    /\ w_pc = "idle"
    /\ ops < MaxOps
    /\ ops' = ops + 1
    /\ \E r \in Requests :
          /\ w_req' = r
          /\ w_pc' = CASE r.op = "create" ->
                            IF r.url # NULL THEN "create_lookup" ELSE "svc_maxpos"
                       [] r.op = "webhook" ->
                            IF r.url # NULL THEN "webhook_lookup" ELSE "svc_maxpos"
                       [] r.op = "update" -> "update_get"
                       [] r.op = "delete" -> "delete_get"
                       [] r.op = "update_stage" -> "stage_get"
                       [] r.op = "reorder" -> "reorder_get"
                       [] r.op = "import" -> "import_lookup"
                       [] r.op = "list" -> "list_query"
    /\ w_resp' = NoResp
    /\ UNCHANGED <<w_id, w_loaded, w_maxpos, w_k, w_dirty>>
    /\ UNCHANGED <<db, lock, stop, sent>>

\* the rows in an order that ORDER BY priority DESC, position may return;
\* rows equal on both come in any order
Ordered(table) ==
    {order \in Permutations(Ids(table)) :
        \A a, b \in Ids(table) :
            a < b =>
                \/ table[order[a]].priority > table[order[b]].priority
                \/ /\ table[order[a]].priority = table[order[b]].priority
                   /\ table[order[a]].position <= table[order[b]].position}

\* ListingService.get_all_grouped_by_stage on the rows in that order
get_all_grouped_by_stage(table, order) ==
    [st \in STAGE_VALUES |-> SelectSeq(order, LAMBDA i : table[i].stage = st)]

\* get_all_listings: GET /listings
WebList ==
    /\ w_pc = "list_query"
    /\ \E order \in Ordered(db) :
          WebReturn([Resp("list", "ok", NoId, NoId) EXCEPT
                        !.grouped = get_all_grouped_by_stage(db, order)])
    /\ UNCHANGED sharedVars

\* create_listing: the duplicate check
WebCreateLookup ==
    /\ w_pc = "create_lookup"
    /\ IF FirstByUrl(db, w_req.url) # NoId
       THEN WebRespondFound("400", NoId, FirstByUrl(db, w_req.url))
       ELSE /\ w_pc' = "svc_maxpos"
            /\ UNCHANGED <<w_req, w_id, w_loaded, w_maxpos, w_k, w_dirty, w_resp>>
    /\ UNCHANGED sharedVars

\* telegram_webhook: the duplicate check
WebWebhookLookup ==
    /\ w_pc = "webhook_lookup"
    /\ IF FirstByUrl(db, w_req.url) # NoId
       THEN WebRespondFound("duplicate", FirstByUrl(db, w_req.url),
                            FirstByUrl(db, w_req.url))
       ELSE /\ w_pc' = "svc_maxpos"
            /\ UNCHANGED <<w_req, w_id, w_loaded, w_maxpos, w_k, w_dirty, w_resp>>
    /\ UNCHANGED sharedVars

\* import_from_url: clean_url and service.get_by_url(clean_url); reading
\* data.force of a UrlImportRequest raises AttributeError
WebImportLookup ==
    /\ w_pc = "import_lookup"
    /\ IF FirstByUrl(db, strip_ru_prefix(w_req.url)) # NoId
       THEN WebRespondFound("500", NoId, FirstByUrl(db, strip_ru_prefix(w_req.url)))
       ELSE /\ w_pc' = "import_lookup_raw"
            /\ UNCHANGED <<w_req, w_id, w_loaded, w_maxpos, w_k, w_dirty, w_resp>>
    /\ UNCHANGED sharedVars

\* import_from_url: ... or service.get_by_url(data.url)
WebImportLookupRaw ==
    /\ w_pc = "import_lookup_raw"
    /\ IF FirstByUrl(db, w_req.url) # NoId
       THEN WebRespondFound("500", NoId, FirstByUrl(db, w_req.url))
       ELSE /\ w_pc' = "import_parse"
            /\ UNCHANGED <<w_req, w_id, w_loaded, w_maxpos, w_k, w_dirty, w_resp>>
    /\ UNCHANGED sharedVars

\* import_from_url: ScraperService.parse_url(clean_url) and the ListingCreate
WebImportParse ==
    /\ w_pc = "import_parse"
    /\ \/ WebRespond("500", NoId)
       \/ \E title \in Titles :
            /\ w_req' = [w_req EXCEPT !.url = strip_ru_prefix(w_req.url),
                                      !.title = title,
                                      !.stage = STAGE_TO_BE_COMMUNICATED]
            /\ w_pc' = "svc_maxpos"
            /\ UNCHANGED <<w_id, w_loaded, w_maxpos, w_k, w_dirty, w_resp>>
    /\ UNCHANGED sharedVars

\* mutant: the max-position query is not filtered by stage
ServiceCreateMaxPos_any_stage ==
    /\ w_pc = "svc_maxpos"
    /\ w_maxpos' = MaxOf({0} \cup {db[i].position : i \in Ids(db)})
    /\ w_pc' = "svc_commit"
    /\ UNCHANGED <<w_req, w_id, w_loaded, w_k, w_dirty, w_resp>>
    /\ UNCHANGED sharedVars

\* ListingService.create: max_pos
ServiceCreateMaxPos ==
    /\ w_pc = "svc_maxpos"
    /\ w_maxpos' = MaxPosition(db, w_req.stage)
    /\ w_pc' = "svc_commit"
    /\ UNCHANGED <<w_req, w_id, w_loaded, w_k, w_dirty, w_resp>>
    /\ UNCHANGED sharedVars

\* ListingService.create: db.add, db.commit; IntegrityError is a 500
ServiceCreateCommit ==
    /\ w_pc = "svc_commit"
    /\ IF UrlIsFree(db, w_req.url, NoId)
       THEN /\ db' = Append(db, Row(w_req.url, w_req.title, w_req.stage,
                                    w_maxpos + 1))
            /\ WebRespond("created", Len(db) + 1)
       ELSE /\ UNCHANGED db
            /\ WebRespond("500", NoId)
    /\ UNCHANGED <<lock, stop, sent, ops>>

\* ListingService.update: get_by_id
WebUpdateGet ==
    /\ w_pc = "update_get"
    /\ IF w_req.id \notin Ids(db)
       THEN WebRespond("404", NoId)
       ELSE /\ w_id' = w_req.id
            /\ w_loaded' = db[w_req.id]
            /\ w_pc' = "update_commit"
            /\ UNCHANGED <<w_req, w_maxpos, w_k, w_dirty, w_resp>>
    /\ UNCHANGED sharedVars

\* mutant: model_dump() without exclude_unset, every field of the patch is
\* assigned
WebUpdateCommit_all_fields ==
    /\ w_pc = "update_commit"
    /\ LET assigned == [f \in DOMAIN w_loaded |->
                          IF f \in {"url", "title", "priority"}
                          THEN w_req[f] ELSE w_loaded[f]]
       IN  IF assigned.url = w_loaded.url \/ UrlIsFree(db, assigned.url, w_id)
           THEN /\ db' = Flush(db, w_id, w_loaded, assigned)
                /\ WebRespond("ok", w_id)
           ELSE /\ UNCHANGED db
                /\ WebRespond("500", NoId)
    /\ UNCHANGED <<lock, stop, sent, ops>>

\* ListingService.update: setattr for the fields sent, db.commit
WebUpdateCommit ==
    /\ w_pc = "update_commit"
    /\ LET assigned == [f \in DOMAIN w_loaded |->
                          IF f \in w_req.fields THEN w_req[f] ELSE w_loaded[f]]
       IN  IF assigned.url = w_loaded.url \/ UrlIsFree(db, assigned.url, w_id)
           THEN /\ db' = Flush(db, w_id, w_loaded, assigned)
                /\ WebRespond("ok", w_id)
           ELSE /\ UNCHANGED db
                /\ WebRespond("500", NoId)
    /\ UNCHANGED <<lock, stop, sent, ops>>

\* ListingService.delete: get_by_id
WebDeleteGet ==
    /\ w_pc = "delete_get"
    /\ IF w_req.id \notin Ids(db)
       THEN WebRespond("404", NoId)
       ELSE /\ w_id' = w_req.id
            /\ w_loaded' = db[w_req.id]
            /\ w_pc' = "delete_maxpos"
            /\ UNCHANGED <<w_req, w_maxpos, w_k, w_dirty, w_resp>>
    /\ UNCHANGED sharedVars

\* ListingService.delete: max_pos
WebDeleteMaxPos ==
    /\ w_pc = "delete_maxpos"
    /\ w_maxpos' = MaxPosition(db, "deleted")
    /\ w_pc' = "delete_commit"
    /\ UNCHANGED <<w_req, w_id, w_loaded, w_k, w_dirty, w_resp>>
    /\ UNCHANGED sharedVars

\* ListingService.delete: the assignments and db.commit
WebDeleteCommit ==
    /\ w_pc = "delete_commit"
    /\ db' = Flush(db, w_id, w_loaded,
                   [w_loaded EXCEPT !.stage = "deleted", !.position = w_maxpos + 1])
    /\ WebRespond("deleted", w_id)
    /\ UNCHANGED <<lock, stop, sent, ops>>

\* ListingService.update_stage: get_by_id and the stage check
WebStageGet ==
    /\ w_pc = "stage_get"
    /\ IF w_req.id \notin Ids(db)
       THEN WebRespond("404", NoId)
       ELSE IF w_req.stage \notin STAGE_VALUES
       THEN WebRespond("400", NoId)
       ELSE /\ w_id' = w_req.id
            /\ w_loaded' = db[w_req.id]
            /\ w_pc' = "stage_commit"
            /\ UNCHANGED <<w_req, w_maxpos, w_k, w_dirty, w_resp>>
    /\ UNCHANGED sharedVars

\* ListingService.update_stage: the assignments and db.commit
WebStageCommit ==
    /\ w_pc = "stage_commit"
    /\ db' = Flush(db, w_id, w_loaded,
                   [w_loaded EXCEPT !.stage = w_req.stage,
                                    !.position = w_req.position])
    /\ WebRespond("ok", w_id)
    /\ UNCHANGED <<lock, stop, sent, ops>>

\* mutant: a card is repositioned whatever its stage
WebReorderGet_any_stage ==
    /\ w_pc = "reorder_get"
    /\ LET k == w_k + 1
           card == w_req.ids[k]
           seen == {j \in 1..Len(w_dirty) : w_dirty[j].id = card}
       IN  /\ w_dirty' =
                 IF seen = {} /\ card \notin Ids(db) THEN w_dirty
                 ELSE IF seen # {}
                 THEN [w_dirty EXCEPT ![MinOf(seen)].position = k - 1]
                 ELSE Append(w_dirty, Dirty(card, db[card], k - 1))
           /\ w_k' = k
           /\ w_pc' = IF k = Len(w_req.ids) THEN "reorder_commit" ELSE "reorder_get"
    /\ UNCHANGED <<w_req, w_id, w_loaded, w_maxpos, w_resp>>
    /\ UNCHANGED sharedVars

\* ListingService.reorder_column: one iteration of the loop over card_ids; a
\* card loaded earlier in the request is the same object on a later get_by_id
WebReorderGet ==
    /\ w_pc = "reorder_get"
    /\ LET k == w_k + 1
           card == w_req.ids[k]
           seen == {j \in 1..Len(w_dirty) : w_dirty[j].id = card}
           stage == IF seen # {} THEN w_dirty[MinOf(seen)].loaded.stage
                    ELSE IF card \in Ids(db) THEN db[card].stage ELSE ""
       IN  /\ w_dirty' =
                 IF stage # w_req.stage THEN w_dirty
                 ELSE IF seen # {}
                 THEN [w_dirty EXCEPT ![MinOf(seen)].position = k - 1]
                 ELSE Append(w_dirty, Dirty(card, db[card], k - 1))
           /\ w_k' = k
           /\ w_pc' = IF k = Len(w_req.ids) THEN "reorder_commit" ELSE "reorder_get"
    /\ UNCHANGED <<w_req, w_id, w_loaded, w_maxpos, w_resp>>
    /\ UNCHANGED sharedVars

RECURSIVE FlushAll(_, _)
\* the UPDATEs of one commit, one per loaded object
FlushAll(table, dirty) ==
    IF dirty = <<>> THEN table
    ELSE FlushAll(Flush(table, Head(dirty).id, Head(dirty).loaded,
                        [Head(dirty).loaded EXCEPT !.position = Head(dirty).position]),
                  Tail(dirty))

\* ListingService.reorder_column: db.commit
WebReorderCommit ==
    /\ w_pc = "reorder_commit"
    /\ db' = FlushAll(db, w_dirty)
    /\ WebRespond("reordered", NoId)
    /\ UNCHANGED <<lock, stop, sent, ops>>

\* ------------------------------------------------------------------------
\* Scraper (idealista/scraper.py): scrape_listings fetches, parses and
\* filters one result page; scrape_all_pages drives it over the pages.
\* ------------------------------------------------------------------------

\* articles on one fetched result page
MaxArticles == 2

\* calls of scrape_all_pages
MaxScrapes == 1

\* str.lower() on the letters of the model
Lower(s) ==
    [k \in 1..Len(s) |-> CASE s[k] = "A" -> "a"
                           [] s[k] = "B" -> "b"
                           [] s[k] = "N" -> "n"
                           [] OTHER -> s[k]]

\* sub in s, for strings
Contains(sub, s) ==
    \E k \in 0..(Len(s) - Len(sub)) : SubSeq(s, k + 1, k + Len(sub)) = sub

Y == <<"/", "y">>
RuY == <<"/", "r", "u", "/", "y">>

\* details[2] is missing: floor = "N/A"
NA == <<"N", "/", "A">>

Article(href, title, description, floor) ==
    [href |-> href, title |-> title, description |-> description,
     floor |-> floor]

\* the <article> elements a result page can hold: one without a link, one
\* per exclusion list that can match it, and two that match none
Articles ==
    {Article(<<>>, <<"c">>, <<>>, <<"1">>),
     Article(X, <<"A">>, <<>>, <<"1">>),
     Article(RuY, <<"c">>, <<"b">>, <<"1">>),
     Article(Y, <<"c">>, <<>>, <<"B">>),
     Article(RuX, <<"c">>, <<>>, <<"1">>),
     Article(Y, <<"c">>, <<>>, NA)}

ArticlePages == BoundedSeq(Articles, MaxArticles)

\* Listing: the fields the filters read
ListingOf(url, title, description, floor) ==
    [url |-> url, title |-> title, description |-> description, floor |-> floor]

\* _parse_listing returned None
NoListing == ListingOf(<<>>, <<>>, <<>>, <<>>)

\* _parse_listing(article, base_url)
parse_listing(article) ==
    IF article.href = <<>>
    THEN NoListing
    ELSE ListingOf(ListingUrl(article.href), article.title,
                   article.description, article.floor)

\* EXCLUDED_AREAS, EXCLUDED_TERMS, EXCLUDED_FLOORS
Config(areas, terms, floors) ==
    [areas |-> areas, terms |-> terms, floors |-> floors]

\* config.py as shipped: the three lists are empty
ShippedConfig == Config({}, {}, {})

Configs ==
    {Config(a, t, f) : a \in SUBSET {<<"a">>}, t \in SUBSET {<<"B">>},
                       f \in SUBSET {<<"b">>}}

\* mutant: the texts are compared without lower()
should_exclude_case_sensitive(listing, cfg) ==
    LET text == listing.title \o <<" ">> \o listing.description
        floor_text == listing.floor
    IN  \/ \E area \in cfg.areas : Contains(area, text)
        \/ \E term \in cfg.terms : Contains(term, text)
        \/ \E floor \in cfg.floors : Contains(floor, floor_text)

\* _should_exclude(listing)
should_exclude(listing, cfg) ==
    LET text == Lower(listing.title \o <<" ">> \o listing.description)
        floor_text == Lower(listing.floor)
    IN  \/ \E area \in cfg.areas : Contains(Lower(area), text)
        \/ \E term \in cfg.terms : Contains(Lower(term), text)
        \/ \E floor \in cfg.floors : Contains(Lower(floor), floor_text)

\* scrapfly.scrape(...): it raises, or returns a result whose success flag
\* is false, or returns the page
FetchResult(kind, articles) == [kind |-> kind, articles |-> articles]

NoFetch == FetchResult("none", <<>>)

FetchResults ==
    {FetchResult("exception", <<>>), FetchResult("not_success", <<>>)}
        \cup {FetchResult("ok", a) : a \in ArticlePages}

\* the (listings, error) pair scrape_listings returns, or its exception
Ret(listings, error, raised) ==
    [listings |-> listings, error |-> error, raised |-> raised]

NoRet == Ret(<<>>, FALSE, FALSE)

\* scrape_listings after the fetch: the parse loop with the filters
ParseAndFilter(articles, cfg) ==
    LET parsed == [k \in 1..Len(articles) |-> parse_listing(articles[k])]
    IN  SelectSeq(parsed,
                  LAMBDA l : l # NoListing /\ ~should_exclude(l, cfg))

\* dedupe_fn of scrape_all_pages: None, a filter that drops the listings the
\* caller already knows, or a callback that raises
DedupeFns == {"none", "drop_known", "raises"}

KnownUrls == {X}

\* listings after the "if dedupe_fn:" block; an exception of the callback is
\* logged and the page's listings stay as scraped
ApplyDedupe(fn, listings) ==
    IF fn = "drop_known"
    THEN SelectSeq(listings, LAMBDA l : l.url \notin KnownUrls)
    ELSE listings

\* one iteration of the page loop, as scrape_all_pages saw it
PageLog(error, fetches, listings) ==
    [error |-> error, fetches |-> fetches, listings |-> listings]

VARIABLES
    p_cfg,      \* the exclusion lists of config.py
    p_pc,       \* position in scrape_all_pages / scrape_listings
    p_calls,    \* calls of scrape_all_pages started
    p_dedupe,   \* scrape_all_pages: dedupe_fn
    p_page,     \* scrape_all_pages: page
    p_all,      \* scrape_all_pages: all_listings
    p_error,    \* scrape_all_pages: error_occurred
    p_fetches,  \* scrapfly.scrape calls of the running scrape_listings
    p_result,   \* scrape_listings: what scrapfly.scrape did
    p_ret,      \* what scrape_listings returned
    p_log       \* the iterations of the page loop so far

scrapeCoreVars ==
    <<p_cfg, p_pc, p_calls, p_dedupe, p_page, p_all, p_error, p_fetches,
      p_result, p_ret, p_log>>

\* ------------------------------------------------------------------------
\* The URLs scrape_all_pages hands to scrape_listings.  A URL is its path,
\* as the segments between the slashes, and its query string; scheme, host,
\* params and fragment are passed through by urlparse / urlunparse.  A
\* segment is a name and a number: "pagina-<n>.htm" or any other text.
\* ------------------------------------------------------------------------

\* segments in the path of a base URL
MaxSegs == 3

Seg(name, n) == [name |-> name, n |-> n]

\* "venta", the empty segment of a doubled or trailing slash, "pagina-2.htm"
\* and "pagina-7.htm"
Segs == {Seg("venta", 0), Seg("", 0), Seg("pagina", 2), Seg("pagina", 7)}

Queries == {"", "orden=precio&page=1"}

Url(path, query) == [path |-> path, query |-> query]

BaseUrls == {Url(path, q) : path \in BoundedSeq(Segs, MaxSegs), q \in Queries}

\* path.rstrip("/")
RStripSlash(path) ==
    LET keep == {i \in 1..Len(path) : path[i].name # ""}
    IN  IF keep = {} THEN <<>> ELSE SubSeq(path, 1, MaxOf(keep))

\* path.rsplit("/pagina-", 1)[0] when "/pagina-" is in path
BeforeLastPagina(path) ==
    LET hits == {i \in 1..Len(path) : path[i].name = "pagina"}
    IN  IF hits = {} THEN path ELSE SubSeq(path, 1, MaxOf(hits) - 1)

\* mutant: the URL is rebuilt from scheme, host and path only
build_pagination_url_no_query(base_url, page) ==
    Url(Append(BeforeLastPagina(RStripSlash(base_url.path)),
               Seg("pagina", page)),
        "")

\* _build_pagination_url(base_url, page)
build_pagination_url(base_url, page) ==
    Url(Append(BeforeLastPagina(RStripSlash(base_url.path)),
               Seg("pagina", page)),
        base_url.query)

VARIABLES
    g_pc,       \* position in the page loop of scrape_all_pages
    g_base,     \* scrape_all_pages: base_url
    g_page,     \* scrape_all_pages: page
    g_fetched   \* the (page, url) pairs handed to scrape_listings so far

pageVars == <<g_pc, g_base, g_page, g_fetched>>

\* ------------------------------------------------------------------------
\* run_polling and the update queue of the Telegram server.  Updates carry
\* the ids 1, 2, ... in the order of their arrival; get_updates(offset)
\* returns, oldest first, updates whose id is at least offset.  What a
\* handler does to the table is in the event task above; here a handler
\* returns or raises.
\* ------------------------------------------------------------------------

\* updates that arrive at the server
MaxUpdates == 5

VARIABLES
    u_pc,       \* position in run_polling
    u_arrived,  \* the server has the updates 1..u_arrived
    u_offset,   \* run_polling: offset, 0 for None
    u_batch,    \* the ids of the batch the for loop has not reached yet
    u_cur,      \* the id of the update whose handler is running, else 0
    u_handled   \* per update id, how many times its handler was started

pollVars == <<u_pc, u_arrived, u_offset, u_batch, u_cur, u_handled>>

PollIdle ==
    /\ u_pc = "poll"
    /\ u_arrived = 0
    /\ u_offset = 0
    /\ u_batch = <<>>
    /\ u_cur = 0
    /\ u_handled = [id \in 1..MaxUpdates |-> 0]

\* a user sends a message or presses a button
TelegramReceives ==
    /\ u_arrived < MaxUpdates
    /\ u_arrived' = u_arrived + 1
    /\ UNCHANGED <<u_pc, u_offset, u_batch, u_cur, u_handled>>

\* the updates get_updates(offset) may return: the ids from offset (from the
\* oldest one for None) up to some id the server has
Deliverable(offset, arrived) ==
    LET first == IF offset = 0 THEN 1 ELSE offset
    IN  {[k \in 1..n |-> first + k - 1] : n \in 0..(arrived - first + 1)}

\* updates = await bot.get_updates(offset=offset, timeout=30): a batch,
\* nothing within the timeout, or an exception
poll_get_updates ==
    /\ u_pc = "poll"
    /\ \/ /\ \E batch \in Deliverable(u_offset, u_arrived) : u_batch' = batch
          /\ u_pc' = "next"
       \/ /\ u_pc' = "except"
          /\ UNCHANGED u_batch
    /\ UNCHANGED <<u_arrived, u_offset, u_cur, u_handled>>

\* mutant: the offset is advanced only after the handler has returned
poll_next_offset_after ==
    /\ u_pc = "next"
    /\ IF u_batch = <<>>
       THEN /\ u_pc' = "poll"
            /\ u_offset' = IF u_cur = 0 THEN u_offset ELSE u_cur + 1
            /\ u_cur' = 0
            /\ UNCHANGED <<u_batch, u_handled>>
       ELSE /\ u_offset' = IF u_cur = 0 THEN u_offset ELSE u_cur + 1
            /\ u_cur' = Head(u_batch)
            /\ u_batch' = Tail(u_batch)
            /\ u_handled' = [u_handled EXCEPT ![Head(u_batch)] = @ + 1]
            /\ u_pc' = "handle"
    /\ UNCHANGED u_arrived

\* for update in updates: offset = update.update_id + 1, then the handler
\* is called
poll_next ==
    /\ u_pc = "next"
    /\ IF u_batch = <<>>
       THEN /\ u_pc' = "poll"
            /\ u_cur' = 0
            /\ UNCHANGED <<u_offset, u_batch, u_handled>>
       ELSE /\ u_offset' = Head(u_batch) + 1
            /\ u_cur' = Head(u_batch)
            /\ u_batch' = Tail(u_batch)
            /\ u_handled' = [u_handled EXCEPT ![Head(u_batch)] = @ + 1]
            /\ u_pc' = "handle"
    /\ UNCHANGED u_arrived

\* _handle_callback / _handle_message returns or raises; an exception
\* leaves the for loop with the rest of the batch
poll_handle ==
    /\ u_pc = "handle"
    /\ \/ /\ u_pc' = "next"
          /\ UNCHANGED <<u_batch, u_cur>>
       \/ /\ u_pc' = "except"
          /\ u_batch' = <<>>
          /\ u_cur' = 0
    /\ UNCHANGED <<u_arrived, u_offset, u_handled>>

\* except Exception: logged, asyncio.sleep(2), the next get_updates
poll_except ==
    /\ u_pc = "except"
    /\ u_pc' = "poll"
    /\ UNCHANGED <<u_arrived, u_offset, u_batch, u_cur, u_handled>>

\* ------------------------------------------------------------------------
\* send_listings(bot, listings, chat_id): the sends of one call.  A listing
\* is represented by its thumbnail: an http(s) URL, empty, or other text.
\* ------------------------------------------------------------------------

\* listings in one call of send_listings
MaxSendBatch == 3

Thumbnails == {"http", "", "data"}

VARIABLES
    d_pc,       \* position in send_listings
    d_listings, \* send_listings: listings
    d_i,        \* the index of the listing the for loop is at
    d_log       \* the send calls so far: [i, via, ok]

sendVars == <<d_pc, d_listings, d_i, d_log>>

SendIdle ==
    /\ d_pc = "idle"
    /\ d_listings = <<>>
    /\ d_i = 1
    /\ d_log = <<>>

Attempt(i, via, ok) == [i |-> i, via |-> via, ok |-> ok]

send_listings_call ==
    /\ d_pc = "idle"
    /\ \E listings \in BoundedSeq(Thumbnails, MaxSendBatch) :
          d_listings' = listings
    /\ d_i' = 1
    /\ d_log' = <<>>
    /\ d_pc' = "listing"

\* for listing, db_listing in listings: message, reply_markup and the test
\* of the thumbnail; after the last listing the function returns
send_listings_next ==
    /\ d_pc = "listing"
    /\ d_pc' = IF d_i > Len(d_listings) THEN "idle"
               ELSE IF d_listings[d_i] = "http" THEN "photo"
               ELSE "text"
    /\ UNCHANGED <<d_listings, d_i, d_log>>

\* bot.send_photo(...); except Exception: on to bot.send_message
send_photo ==
    /\ d_pc = "photo"
    /\ \E ok \in BOOLEAN :
          /\ d_log' = Append(d_log, Attempt(d_i, "photo", ok))
          /\ IF ok
             THEN d_pc' = "listing" /\ d_i' = d_i + 1
             ELSE d_pc' = "text" /\ d_i' = d_i
    /\ UNCHANGED d_listings

\* mutant: no try around the body of the for loop
send_message_uncaught ==
    /\ d_pc = "text"
    /\ \E ok \in BOOLEAN :
          /\ d_log' = Append(d_log, Attempt(d_i, "text", ok))
          /\ IF ok
             THEN d_pc' = "listing" /\ d_i' = d_i + 1
             ELSE d_pc' = "idle" /\ d_i' = d_i
    /\ UNCHANGED d_listings

\* bot.send_message(...), asyncio.sleep(1); except Exception: logged, the
\* next listing
send_message ==
    /\ d_pc = "text"
    /\ \E ok \in BOOLEAN :
          d_log' = Append(d_log, Attempt(d_i, "text", ok))
    /\ d_pc' = "listing"
    /\ d_i' = d_i + 1
    /\ UNCHANGED d_listings

scrapeVars == <<scrapeCoreVars, pageVars, pollVars, sendVars>>

PagesIdle ==
    /\ g_pc = "idle"
    /\ g_base = Url(<<>>, "")
    /\ g_page = 1
    /\ g_fetched = <<>>

\* scrape_all_pages(base_url): the locals before the loop
paginate_call ==
    /\ g_pc = "idle"
    /\ \E base_url \in BaseUrls : g_base' = base_url
    /\ g_page' = 1
    /\ g_fetched' = <<>>
    /\ g_pc' = "fetch"

\* one iteration of the page loop: the URL of the page, scrape_listings(url)
\* and the three ways the iteration ends (error, a short page, a full page)
paginate_fetch ==
    /\ g_pc = "fetch"
    /\ LET url == IF g_page = 1 THEN g_base
                  ELSE build_pagination_url(g_base, g_page)
       IN  g_fetched' = Append(g_fetched, [page |-> g_page, url |-> url])
    /\ \E outcome \in {"error", "short", "full"} :
          IF outcome = "full" /\ g_page < max_pages
          THEN g_page' = g_page + 1 /\ g_pc' = "fetch"
          ELSE g_page' = g_page /\ g_pc' = "idle"
    /\ UNCHANGED g_base

ScrapeStart(cfg) ==
    /\ p_cfg = cfg
    /\ p_pc = "idle"
    /\ p_calls = 0
    /\ p_dedupe = "none"
    /\ p_page = 1
    /\ p_all = <<>>
    /\ p_error = FALSE
    /\ p_fetches = 0
    /\ p_result = NoFetch
    /\ p_ret = NoRet
    /\ p_log = <<>>
    /\ PagesIdle
    /\ PollIdle
    /\ SendIdle

ScrapeIdle == ScrapeStart(ShippedConfig)

InitScrape == \E cfg \in Configs : ScrapeStart(cfg)

\* scrape_all_pages(base_url, dedupe_fn=...): the locals before the loop
scrape_all_pages_call ==
    /\ p_pc = "idle"
    /\ p_calls < MaxScrapes
    /\ p_calls' = p_calls + 1
    /\ \E fn \in DedupeFns : p_dedupe' = fn
    /\ p_page' = 1
    /\ p_all' = <<>>
    /\ p_error' = FALSE
    /\ p_log' = <<>>
    /\ p_fetches' = 0
    /\ p_result' = NoFetch
    /\ p_ret' = NoRet
    /\ p_pc' = "fetch"
    /\ UNCHANGED p_cfg

\* scrape_listings: result = scrapfly.scrape(ScrapeConfig(...))
scrape_listings_fetch ==
    /\ p_pc = "fetch"
    /\ p_fetches' = p_fetches + 1
    /\ \E r \in FetchResults : p_result' = r
    /\ p_pc' = "fetched"
    /\ UNCHANGED <<p_cfg, p_calls, p_dedupe, p_page, p_all, p_error, p_ret,
                   p_log>>

\* mutant: a failed fetch is tried once more before giving up
scrape_listings_return_retry ==
    /\ p_pc = "fetched"
    /\ IF p_result.kind # "ok" /\ p_fetches < 2
       THEN p_pc' = "fetch" /\ UNCHANGED p_ret
       ELSE /\ p_ret' = IF p_result.kind = "ok"
                        THEN Ret(ParseAndFilter(p_result.articles, p_cfg),
                                 FALSE, FALSE)
                        ELSE Ret(<<>>, TRUE, FALSE)
            /\ p_pc' = "page_end"
    /\ UNCHANGED <<p_cfg, p_calls, p_dedupe, p_page, p_all, p_error,
                   p_fetches, p_result, p_log>>

\* scrape_listings from the except clause / the success test to its return
scrape_listings_return ==
    /\ p_pc = "fetched"
    /\ p_ret' = IF p_result.kind = "ok"
                THEN Ret(ParseAndFilter(p_result.articles, p_cfg), FALSE, FALSE)
                ELSE Ret(<<>>, TRUE, FALSE)
    /\ p_pc' = "page_end"
    /\ UNCHANGED <<p_cfg, p_calls, p_dedupe, p_page, p_all, p_error,
                   p_fetches, p_result, p_log>>

\* mutant: the page's size is tested before the dedup callback runs
scrape_all_pages_page_raw_count ==
    /\ p_pc = "page_end"
    /\ IF p_ret.error
       THEN /\ p_error' = TRUE
            /\ p_log' = Append(p_log, PageLog(TRUE, p_fetches, <<>>))
            /\ p_pc' = "done"
            /\ UNCHANGED <<p_all, p_page, p_fetches>>
       ELSE LET listings == ApplyDedupe(p_dedupe, p_ret.listings)
                last == \/ Len(p_ret.listings) <= MinNewToContinue
                        \/ p_page = max_pages
            IN  /\ p_all' = p_all \o listings
                /\ p_log' = Append(p_log, PageLog(FALSE, p_fetches, listings))
                /\ p_page' = IF last THEN p_page ELSE p_page + 1
                /\ p_fetches' = IF last THEN p_fetches ELSE 0
                /\ p_pc' = IF last THEN "done" ELSE "fetch"
                /\ UNCHANGED p_error
    /\ p_result' = NoFetch
    /\ UNCHANGED <<p_cfg, p_calls, p_dedupe, p_ret>>

\* mutant: a failed page discards what the earlier pages gave
scrape_all_pages_page_error_clears ==
    /\ p_pc = "page_end"
    /\ IF p_ret.error
       THEN /\ p_error' = TRUE
            /\ p_log' = Append(p_log, PageLog(TRUE, p_fetches, <<>>))
            /\ p_pc' = "done"
            /\ p_all' = <<>>
            /\ UNCHANGED <<p_page, p_fetches>>
       ELSE LET listings == ApplyDedupe(p_dedupe, p_ret.listings)
                last == \/ Len(listings) <= MinNewToContinue
                        \/ p_page = max_pages
            IN  /\ p_all' = p_all \o listings
                /\ p_log' = Append(p_log, PageLog(FALSE, p_fetches, listings))
                /\ p_page' = IF last THEN p_page ELSE p_page + 1
                /\ p_fetches' = IF last THEN p_fetches ELSE 0
                /\ p_pc' = IF last THEN "done" ELSE "fetch"
                /\ UNCHANGED p_error
    /\ p_result' = NoFetch
    /\ UNCHANGED <<p_cfg, p_calls, p_dedupe, p_ret>>

\* scrape_all_pages: the rest of one iteration of the page loop
scrape_all_pages_page ==
    /\ p_pc = "page_end"
    /\ IF p_ret.error
       THEN /\ p_error' = TRUE
            /\ p_log' = Append(p_log, PageLog(TRUE, p_fetches, <<>>))
            /\ p_pc' = "done"
            /\ UNCHANGED <<p_all, p_page, p_fetches>>
       ELSE LET listings == ApplyDedupe(p_dedupe, p_ret.listings)
                last == \/ Len(listings) <= MinNewToContinue
                        \/ p_page = max_pages
            IN  /\ p_all' = p_all \o listings
                /\ p_log' = Append(p_log, PageLog(FALSE, p_fetches, listings))
                /\ p_page' = IF last THEN p_page ELSE p_page + 1
                /\ p_fetches' = IF last THEN p_fetches ELSE 0
                /\ p_pc' = IF last THEN "done" ELSE "fetch"
                /\ UNCHANGED p_error
    /\ p_result' = NoFetch
    /\ UNCHANGED <<p_cfg, p_calls, p_dedupe, p_ret>>

\* return all_listings, error_occurred
scrape_all_pages_return ==
    /\ p_pc = "done"
    /\ p_pc' = "idle"
    /\ UNCHANGED <<p_cfg, p_calls, p_dedupe, p_page, p_all, p_error,
                   p_fetches, p_result, p_ret, p_log>>

\* ------------------------------------------------------------------------
\* What each creator's max-position query saw: the table as it was when
\* save_listing_to_db, create_listing_from_url or ListingService.create ran
\* its func.max query, kept until that call commits.
\* ------------------------------------------------------------------------

VARIABLES
    t_snap,     \* the table at the timer task's max-position query
    e_snap,     \* the table at the event task's max-position query
    w_snap,     \* the table at the web process's max-position query
    t_slept,    \* the timer task's delay has ended since its start or since
                \* the end of its last cycle
    t_note      \* the last notification built by send_listings

snapVars == <<t_snap, e_snap, w_snap, t_slept, t_note>>

Note(saved, markup) ==
    [url |-> saved.url, id |-> saved.id, stage |-> saved.stage,
     markup |-> markup]

NoNote == Note(Saved(NULL, NoId, ""), NoId)

SnapIdle ==
    /\ t_snap = <<>>
    /\ e_snap = <<>>
    /\ w_snap = <<>>
    /\ t_slept = FALSE
    /\ t_note = NoNote

\* stop_event.set(), by whoever owns the event
SetStop ==
    /\ ~stop
    /\ stop' = TRUE
    /\ UNCHANGED <<db, lock, sent, ops>>
    /\ UNCHANGED <<timerVars, eventVars>>

botVars == <<sharedVars, timerVars, eventVars>>

\* both tasks of the bot process before their first step
TasksIdle ==
    /\ lock = "free"
    /\ stop = FALSE
    /\ sent = [u \in ScrapedUrls |-> 0]
    /\ ops = 0
    /\ t_pc = "loop"
    /\ t_page = 1
    /\ t_listings = <<>>
    /\ t_i = 1
    /\ t_maxpos = 0
    /\ t_saved = <<>>
    /\ EventIdle

\* a fresh database
BotIdle ==
    /\ db = <<>>
    /\ TasksIdle

\* the database file survives restarts: records stored by an earlier run,
\* one created through the web API and one imported by the bot
StoredRow == Row(NULL, "t2", STAGE_PRELIMINARY, 1)

ImportedRow == Row(X, "t1", STAGE_TO_BE_COMMUNICATED, 1)

StoredTables == {<<StoredRow>>, <<StoredRow, ImportedRow>>}

Init == BotIdle /\ WebIdle /\ UrlIdle /\ SeenIdle /\ ScrapeIdle /\ SnapIdle

\* normalisation touches nothing else
UrlFrame == UNCHANGED <<seenVars, botVars, webVars, scrapeVars, snapVars>>

NextUrl ==
    \/ Normalize /\ UrlFrame
    \/ NormalizeAgain /\ UrlFrame

\* the store's operations touch nothing else
SeenFrame == UNCHANGED <<urlVars, botVars, webVars, scrapeVars, snapVars>>

ReadCounted ==
    s_reads' = IF ReadsFile(s_mem, s_file) THEN s_reads + 1 ELSE s_reads

NextSeen ==
    \/ load_seen_listings /\ SeenFrame /\ ReadCounted
    \/ save_seen_listings /\ SeenFrame /\ UNCHANGED s_reads
    \/ add_seen_url /\ SeenFrame /\ ReadCounted
    \/ clear_seen_listings /\ SeenFrame /\ UNCHANGED s_reads
    \/ Restart /\ SeenFrame /\ s_reads' = 0

\* a step of the timer task leaves the event task and the web process alone
TimerFrame ==
    UNCHANGED <<urlVars, seenVars, eventVars, webVars, scrapeVars,
                e_snap, w_snap>>

TimerStep ==
    \/ TimerLoop /\ TimerFrame /\ UNCHANGED <<t_snap, t_slept, t_note>>
    \/ TimerAcquire /\ TimerFrame /\ UNCHANGED <<t_snap, t_slept, t_note>>
    \/ TimerScrapePage /\ TimerFrame /\ UNCHANGED <<t_snap, t_slept, t_note>>
    \/ TimerScrapeFailed /\ TimerFrame /\ UNCHANGED <<t_snap, t_slept, t_note>>
    \/ TimerFilter /\ TimerFrame /\ UNCHANGED <<t_snap, t_slept, t_note>>
    \/ TimerSaveExisting /\ TimerFrame /\ UNCHANGED <<t_snap, t_slept, t_note>>
    \/ TimerSaveMaxPos /\ TimerFrame /\ t_snap' = db
                       /\ UNCHANGED <<t_slept, t_note>>
    \/ TimerSaveCommit /\ TimerFrame /\ t_snap' = <<>>
                       /\ UNCHANGED <<t_slept, t_note>>
    \/ TimerSend /\ TimerFrame /\ UNCHANGED <<t_snap, t_slept>>
                 /\ t_note' = Note(t_saved[t_i], build_listing_markup(t_saved[t_i]))
    \/ TimerRelease /\ TimerFrame /\ t_slept' = FALSE
                    /\ UNCHANGED <<t_snap, t_note>>
    \/ TimerExcept /\ TimerFrame /\ t_slept' = FALSE
                   /\ UNCHANGED <<t_snap, t_note>>
    \/ TimerWake /\ TimerFrame /\ t_slept' = TRUE
                 /\ UNCHANGED <<t_snap, t_note>>

\* a step of the event task leaves the web process alone (it shares the
\* timer task's variables only through the actions that say so)
EventFrame ==
    UNCHANGED <<urlVars, seenVars, webVars, scrapeVars, t_snap, w_snap,
                t_slept, t_note>>

EventStep ==
    \/ EventPoll /\ EventFrame /\ UNCHANGED e_snap
    \/ EventDispatch /\ EventFrame /\ UNCHANGED e_snap
    \/ EventMsgAcquire /\ EventFrame /\ UNCHANGED e_snap
    \/ EventImportParse /\ EventFrame /\ UNCHANGED e_snap
    \/ EventImportExisting /\ EventFrame /\ UNCHANGED e_snap
    \/ EventImportMaxPos /\ EventFrame /\ e_snap' = db
    \/ EventImportCommit /\ EventFrame /\ e_snap' = <<>>
    \/ EventMsgRelease /\ EventFrame /\ UNCHANGED e_snap
    \/ EventMsgReply /\ EventFrame /\ UNCHANGED e_snap
    \/ EventCbAcquire /\ EventFrame /\ UNCHANGED e_snap
    \/ EventCbQuery /\ EventFrame /\ UNCHANGED e_snap
    \/ EventCbMaxPos /\ EventFrame /\ UNCHANGED e_snap
    \/ EventCbCommit /\ EventFrame /\ UNCHANGED e_snap
    \/ EventCbRelease /\ EventFrame /\ UNCHANGED e_snap
    \/ EventCbAnswer /\ EventFrame /\ UNCHANGED e_snap
    \/ EventExcept /\ EventFrame /\ UNCHANGED e_snap
    \/ EventCbInvalid /\ EventFrame /\ UNCHANGED e_snap

\* a step of the web process leaves the bot process's tasks alone
WebFrame ==
    UNCHANGED <<urlVars, seenVars, timerVars, eventVars, scrapeVars,
                t_snap, e_snap, t_slept, t_note>>

WebStep ==
    \/ WebRequest /\ WebFrame /\ UNCHANGED w_snap
    \/ WebCreateLookup /\ WebFrame /\ UNCHANGED w_snap
    \/ WebWebhookLookup /\ WebFrame /\ UNCHANGED w_snap
    \/ WebImportLookup /\ WebFrame /\ UNCHANGED w_snap
    \/ WebImportLookupRaw /\ WebFrame /\ UNCHANGED w_snap
    \/ WebImportParse /\ WebFrame /\ UNCHANGED w_snap
    \/ ServiceCreateMaxPos /\ WebFrame /\ w_snap' = db
    \/ ServiceCreateCommit /\ WebFrame /\ w_snap' = <<>>
    \/ WebUpdateGet /\ WebFrame /\ UNCHANGED w_snap
    \/ WebUpdateCommit /\ WebFrame /\ UNCHANGED w_snap
    \/ WebDeleteGet /\ WebFrame /\ UNCHANGED w_snap
    \/ WebDeleteMaxPos /\ WebFrame /\ UNCHANGED w_snap
    \/ WebDeleteCommit /\ WebFrame /\ UNCHANGED w_snap
    \/ WebStageGet /\ WebFrame /\ UNCHANGED w_snap
    \/ WebStageCommit /\ WebFrame /\ UNCHANGED w_snap
    \/ WebReorderGet /\ WebFrame /\ UNCHANGED w_snap
    \/ WebReorderCommit /\ WebFrame /\ UNCHANGED w_snap
    \/ WebList /\ WebFrame /\ UNCHANGED w_snap

Next ==
    \/ TimerStep
    \/ EventStep
    \/ WebStep
    \/ SetStop /\ UNCHANGED <<urlVars, seenVars, webVars, scrapeVars, snapVars>>

vars == <<urlVars, seenVars, botVars, webVars, scrapeVars, snapVars>>

Spec == Init /\ [][Next]_vars

\* both processes started on a database that already holds a record
StoredInit ==
    /\ db \in StoredTables
    /\ TasksIdle
    /\ WebIdle /\ UrlIdle /\ SeenIdle /\ ScrapeIdle /\ SnapIdle

SpecStored == StoredInit /\ [][Next]_vars

\* strip_ru_prefix alone: the store and both processes stay idle
UrlInit ==
    InitUrl /\ SeenIdle /\ BotIdle /\ WebIdle /\ ScrapeIdle /\ SnapIdle

SpecUrl == UrlInit /\ [][NextUrl]_vars

\* the seen-set store alone
SeenInit ==
    InitSeen /\ UrlIdle /\ BotIdle /\ WebIdle /\ ScrapeIdle /\ SnapIdle

SpecSeen == SeenInit /\ [][NextSeen]_vars

\* the scraper's page loop alone, under every exclusion configuration
ScrapeFrame ==
    UNCHANGED <<urlVars, seenVars, botVars, webVars, snapVars, pageVars,
                pollVars, sendVars>>

NextScrape ==
    \/ scrape_all_pages_call /\ ScrapeFrame
    \/ scrape_listings_fetch /\ ScrapeFrame
    \/ scrape_listings_return /\ ScrapeFrame
    \/ scrape_all_pages_page /\ ScrapeFrame
    \/ scrape_all_pages_return /\ ScrapeFrame

ScrapeInit ==
    InitScrape /\ UrlIdle /\ SeenIdle /\ BotIdle /\ WebIdle /\ SnapIdle

SpecScrape == ScrapeInit /\ [][NextScrape]_vars

\* ------------------------------------------------------------------------
\* Properties of the bot and web processes (Spec)
\* ------------------------------------------------------------------------

\* C1: a scrape cycle of the timer task and a repository operation of the
\* event task (chat import, promote callback) are never inside their
\* lock-protected sections at the same time
C1_MutualExclusion ==
    ~(t_pc \in TimerLocked /\ e_pc \in EventLocked)

C1_Witness ==
    /\ t_pc = "save_commit"
    /\ lock = "timer"
    /\ e_pc \in {"msg_acquire", "cb_acquire"}

\* C2 as stated: no repository write of a web API operation occurs while a
\* scrape cycle or a chat-triggered import holds the lock
C2_WebWritesExcluded ==
    [][(w_pc \in WebCommit /\ w_pc' = "idle" /\ db' # db) => lock = "free"]_vars

\* C2 amended: every query and commit of the bot process (scrape cycle, chat
\* import, promote callback) is made by the task that holds the lock; the web
\* process takes no lock
C2_BotHoldsLock ==
    /\ t_pc \in TimerLocked => lock = "timer"
    /\ e_pc \in EventLocked => lock = "event"

C2_Witness ==
    /\ e_pc = "imp_commit"
    /\ lock = "event"
    /\ w_pc = "svc_commit"

\* C3: a listing URL is sent to the chat notifier at most once, over all
\* scrape cycles of the run and all pages of a cycle
C3_NotifiedAtMostOnce ==
    \A u \in ScrapedUrls : sent[u] <= 1

\* C4: at most one row has any given non-null URL
C4_UrlUnique ==
    \A i, j \in Ids(db) :
        (i # j /\ db[i].url # NULL) => db[i].url # db[j].url

C4_Witness ==
    /\ w_pc = "svc_commit"
    /\ w_req.url # NULL
    /\ FirstByUrl(db, w_req.url) # NoId

C6_ImportUpdatesExisting ==
    [][(e_pc = "imp_commit" /\ e_pc' = "msg_release" /\ e_id # NoId
        /\ e_status' # "error") =>
          /\ db'[e_id].title = e_title
          /\ IF e_loaded.stage # STAGE_TO_BE_COMMUNICATED
             THEN /\ db'[e_id].stage = STAGE_TO_BE_COMMUNICATED
                  /\ db'[e_id].position = e_maxpos + 1
             ELSE /\ db'[e_id].stage = db[e_id].stage
                  /\ db'[e_id].position = db[e_id].position]_vars

\* C7: every URL stored as the key of a row is canonical
C7_StoredUrlsCanonical ==
    \A i \in Ids(db) :
        db[i].url # NULL => strip_ru_prefix(db[i].url) = db[i].url

\* ------------------------------------------------------------------------
\* Properties of the URL normaliser (SpecUrl)
\* ------------------------------------------------------------------------

\* C8: strip_ru_prefix is idempotent, and a URL with the locale segment
\* right after the host normalises to the same value as the URL without it
C8_NormalizeIdempotent ==
    /\ n_calls = 2 => n_twice = n_out
    /\ (n_calls >= 1 /\ StartsWith(Strip(n_in), RuSlash))
          => n_out = strip_ru_prefix(SubSeq(Strip(n_in), Len(RuPath) + 1,
                                            Len(Strip(n_in))))

\* ------------------------------------------------------------------------
\* Properties of the seen-set store (SpecSeen)
\* ------------------------------------------------------------------------

\* C9 as stated: after add(u) completed without an I/O error, a restart
\* followed by load() returns a set that contains u
C9_AddThenFreshLoad ==
    s_hist.op = "add_restart_load" => s_hist.url \in s_mem.urls

\* C9 amended: the same, for a non-empty u without a line break that is its
\* own stripped form, and a load that read the file without an I/O error
C9_AddThenFreshLoadRead ==
    (/\ s_hist.op = "add_restart_load"
     /\ ~s_hist.err
     /\ Strip(s_hist.url) = s_hist.url
     /\ \A k \in 1..Len(s_hist.url) : s_hist.url[k] # "\n"
     /\ s_hist.url # <<>>)
        => s_hist.url \in s_mem.urls

C9_Witness ==
    /\ s_hist.op = "add_restart_load"
    /\ ~s_hist.err
    /\ s_hist.url = RuX
    /\ s_mem.urls = {X, RuX}

\* C10: after clear(), load() yields the empty set, in the same process and
\* in a new process, whatever the seen-set held before
C10_ClearThenLoadEmpty ==
    s_hist.op \in {"clear_load", "clear_restart_load"}
        => s_mem = Loaded({})

C10_Witness ==
    /\ s_hist.op = "clear_restart_load"
    /\ s_hist.held
    /\ s_mem = Loaded({})

\* ------------------------------------------------------------------------
\* The seen-set on the notification path (Spec)
\* ------------------------------------------------------------------------

\* C11: once a scrape cycle has sent a listing to the chat, the listing's
\* URL is in the seen-set, in memory and in the file
C11_SurfacedIsSeen ==
    \A u \in ScrapedUrls :
        sent[u] >= 1 => (u \in s_mem.urls /\ u \in FileUrls(s_file))

\* ------------------------------------------------------------------------
\* Durability and failure handling of the seen-set store (SpecSeen)
\* ------------------------------------------------------------------------

\* the calls of load_seen_listings recorded in s_hist
LoadOps ==
    {"load", "add_restart_load", "clear_load", "clear_restart_load",
     "add_write_failed_load"}

\* C12: no step other than a clear (loads, adds, restarts) removes a URL
\* from the file
C12_DurableNeverShrinks ==
    [][s_hist'.op \notin {"clear", "clear_failed", "save"}
          => FileUrls(s_file) \subseteq FileUrls(s_file')]_vars

\* C13 as stated: a load whose read hit an I/O error leaves the in-memory
\* set empty
C13_LoadErrorGivesEmpty ==
    (s_hist.op \in LoadOps /\ s_hist.err) => s_mem = Loaded({})

\* C13 amended: a load whose read hit an I/O error returns normally and
\* leaves in memory the URLs read before the error, a subset of the file's
C13_LoadErrorKeepsRead ==
    (s_hist.op \in LoadOps /\ s_hist.err) =>
        /\ s_mem.loaded
        /\ s_mem.urls \subseteq FileUrls(s_file)

C13_Witness ==
    /\ s_hist.op = "load"
    /\ s_hist.err
    /\ s_mem.urls = {X}
    /\ FileUrls(s_file) = {X, RuX}

\* C14: a failed write inside add(u) does not make add raise, u is in the
\* in-memory set afterwards, and every later load in the same process
\* returns that set
C14_WriteFailureSwallowed ==
    [][/\ s_hist'.op # "add_raised"
       /\ s_hist'.op = "add_write_failed" => s_hist'.url \in s_mem'.urls
       /\ (s_hist'.op = "add_write_failed_load"
              /\ s_hist.op \in {"add_write_failed", "add_write_failed_load"})
            => s_mem' = s_mem]_vars

\* ------------------------------------------------------------------------
\* Properties of the scraper (SpecScrape)
\* ------------------------------------------------------------------------

\* the page loop has ended: nothing more is fetched in this call
ScrapeEnded == p_pc \in {"done", "idle"}

RECURSIVE Flatten(_)
\* the listings of the logged pages, in page order
Flatten(log) ==
    IF log = <<>> THEN <<>> ELSE Head(log).listings \o Flatten(Tail(log))

\* C15: a page that yields at most min_new_to_continue listings, counted
\* after the dedup callback, is the last page fetched, and error_occurred
\* stays false
C15_StopsOnShortPage ==
    \A k \in 1..Len(p_log) :
        (~p_log[k].error /\ Len(p_log[k].listings) <= MinNewToContinue) =>
            /\ k = Len(p_log)
            /\ ScrapeEnded
            /\ ~p_error

C15_Witness ==
    /\ p_pc = "done"
    /\ p_dedupe = "drop_known"
    /\ Len(p_log) = 1
    /\ Len(p_ret.listings) > MinNewToContinue
    /\ Len(p_log[1].listings) <= MinNewToContinue
    /\ ~p_error

\* C16: error_occurred is true exactly when a page fetch failed; the failed
\* page is the last one fetched, and the listings returned are those of the
\* pages before it
C16_ErrorStopsAndKeeps ==
    /\ p_error <=> \E k \in 1..Len(p_log) : p_log[k].error
    /\ \A k \in 1..Len(p_log) :
          p_log[k].error => (k = Len(p_log) /\ ScrapeEnded)
    /\ ScrapeEnded => p_all = Flatten(p_log)

C16_Witness ==
    /\ p_pc = "done"
    /\ Len(p_log) = 2
    /\ p_log[2].error
    /\ p_error
    /\ Len(p_all) > MinNewToContinue
    /\ p_all = p_log[1].listings

\* C17: a call of scrape_listings has issued exactly one fetch when it
\* returns; a fetch that raised or came back without success is returned as
\* ([], True), and nothing is raised
C17_SingleFetchNoRaise ==
    /\ p_pc = "page_end" =>
          /\ p_fetches = 1
          /\ ~p_ret.raised
          /\ p_result.kind \in {"exception", "not_success"}
                => p_ret = Ret(<<>>, TRUE, FALSE)
    /\ \A k \in 1..Len(p_log) : p_log[k].fetches = 1

C17_Witness ==
    /\ p_pc = "page_end"
    /\ p_page = 2
    /\ p_result.kind = "exception"
    /\ p_fetches = 1
    /\ p_ret = Ret(<<>>, TRUE, FALSE)

\* a configured term occurs in a text, whatever the case of either
OccursIn(term, text) == Contains(Lower(term), Lower(text))

\* C18: no listing a scrape returns has an excluded area or term in its
\* title and description, or an excluded floor term in its floor text
C18_NoExcludedListing ==
    \A l \in {p_all[k] : k \in 1..Len(p_all)}
             \cup {p_ret.listings[k] : k \in 1..Len(p_ret.listings)} :
        /\ \A t \in p_cfg.areas \cup p_cfg.terms :
              /\ ~OccursIn(t, l.title)
              /\ ~OccursIn(t, l.description)
        /\ \A f \in p_cfg.floors : ~OccursIn(f, l.floor)

C18_Witness ==
    /\ p_pc = "page_end"
    /\ p_cfg = Config({<<"a">>}, {<<"B">>}, {<<"b">>})
    /\ Len(p_result.articles) = 2
    /\ \E k \in 1..2 : p_result.articles[k].title = <<"A">>
    /\ Len(p_ret.listings) = 1

\* ------------------------------------------------------------------------
\* Positions and stages of the listing repository (Spec)
\* ------------------------------------------------------------------------

\* the row a step appended sits right above the rows of its stage
AppendedOnTop ==
    LET new == db'[Len(db')]
    IN  /\ new.position = MaxPosition(db, new.stage) + 1
        /\ \A i \in Ids(db) :
              db[i].stage = new.stage => db[i].position < new.position

\* C19: a create call that no other write overlaps (the table is as its
\* max-position query saw it) gives the new record position = max(position
\* in its stage) + 1, above every record of that stage
C19_CreateAppendsOnTop ==
    [][/\ (/\ t_pc = "save_commit" /\ t_pc' # t_pc
           /\ Len(db') = Len(db) + 1 /\ t_snap = db)
            => AppendedOnTop
       /\ (/\ e_pc = "imp_commit" /\ e_pc' # e_pc
           /\ Len(db') = Len(db) + 1 /\ e_snap = db)
            => AppendedOnTop
       /\ (/\ w_pc = "svc_commit" /\ w_pc' # w_pc
           /\ Len(db') = Len(db) + 1 /\ w_snap = db)
            => AppendedOnTop]_vars

C19_Witness ==
    /\ Len(db) = 2
    /\ db[1].stage = db[2].stage
    /\ db[1].position = 1
    /\ db[2].position = 2
    /\ w_resp.status = "created"
    /\ w_resp.id = 2

\* C20: every update_stage answer for an existing record: a stage outside
\* STAGE_VALUES gives 400 and leaves the table as it was; a recognized
\* stage gives ok and the record then holds that stage and exactly the
\* position of the request
C20_UpdateStageValidates ==
    [][(w_req.op = "update_stage" /\ w_pc' = "idle") =>
          /\ (w_req.id \in Ids(db) /\ w_req.stage \notin STAGE_VALUES) =>
                /\ w_resp'.status = "400"
                /\ db' = db
          /\ (w_req.id \in Ids(db) /\ w_req.stage \in STAGE_VALUES) =>
                /\ w_resp'.status = "ok"
                /\ db'[w_req.id].stage = w_req.stage
                /\ db'[w_req.id].position = w_req.position
          /\ w_resp'.status = "ok" => w_req.stage \in STAGE_VALUES]_vars

\* ------------------------------------------------------------------------
\* Frame effects of the repository operations (SpecStored)
\* ------------------------------------------------------------------------

\* the ids a reorder request names
Named(ids) == {ids[k] : k \in 1..Len(ids)}

\* the 0-based index enumerate gives a card: of its last occurrence
IndexIn(ids, card) == MaxOf({k \in 1..Len(ids) : ids[k] = card}) - 1

\* the cards reorder_column found in its stage when it looked them up
FoundInStage ==
    {w_dirty[j].id : j \in {n \in 1..Len(w_dirty) :
                               w_dirty[n].loaded.stage = w_req.stage}}

C22_SoftDelete ==
    [][/\ Len(db') >= Len(db)
       /\ (w_pc = "delete_commit" /\ w_pc' = "idle") =>
             /\ Len(db') = Len(db)
             /\ \A i \in Ids(db) : i # w_id => db'[i] = db[i]
             /\ db'[w_id].url = db[w_id].url
             /\ db'[w_id].title = db[w_id].title
             /\ db'[w_id].stage = "deleted"
             /\ db'[w_id].position = MaxPosition(db, "deleted") + 1]_vars

\* the keys under which the mapping of a response lists record i
KeysOf(grouped, i) ==
    {st \in DOMAIN grouped :
        \E k \in 1..Len(grouped[st]) : grouped[st][k] = i}

\* C23: the mapping GET /listings returns has exactly the known stage
\* values as keys, lists every persisted record exactly once and under its
\* own stage, and orders each list by priority descending, then position
\* ascending
C23_GroupedComplete ==
    [][(w_pc = "list_query" /\ w_pc' = "idle") =>
          LET grouped == w_resp'.grouped
          IN  /\ DOMAIN grouped = STAGE_VALUES
              /\ \A i \in Ids(db) : KeysOf(grouped, i) = {db[i].stage}
              /\ \A st \in DOMAIN grouped :
                    \A a, b \in 1..Len(grouped[st]) :
                        a < b =>
                            /\ grouped[st][a] # grouped[st][b]
                            /\ \/ db[grouped[st][a]].priority
                                      > db[grouped[st][b]].priority
                               \/ /\ db[grouped[st][a]].priority
                                      = db[grouped[st][b]].priority
                                  /\ db[grouped[st][a]].position
                                      <= db[grouped[st][b]].position]_vars

\* the fields of the record of an update that may differ after its commit
UpdateFrame(changing) ==
    /\ Len(db') = Len(db)
    /\ \A i \in Ids(db) : i # w_id => db'[i] = db[i]
    /\ \A f \in DOMAIN db[w_id] : f \notin changing => db'[w_id][f] = db[w_id][f]
    /\ w_resp'.status = "ok" =>
          \A f \in w_req.fields : db'[w_id][f] = w_req[f]

\* C24 as stated: the commit of update(id, patch) changes only the fields
\* supplied in the patch, on the record with that id
C24_UpdateChangesOnlyPatch ==
    [][(w_pc = "update_commit" /\ w_pc' = "idle") =>
          UpdateFrame(w_req.fields)]_vars

\* C24, amended: the commit of update(id, patch) changes only the fields
\* supplied in the patch and updated_at, on the record with that id; stage,
\* position and every other record stay; an unknown id changes nothing
C24_UpdateChangesPatchAndStamp ==
    [][/\ (w_pc = "update_commit" /\ w_pc' = "idle") =>
             UpdateFrame(w_req.fields \cup {"updated_at"})
       /\ (w_pc = "update_get" /\ w_pc' = "idle" /\ w_req.id \notin Ids(db)) =>
             /\ db' = db
             /\ w_resp'.status = "404"]_vars

C24_Witness ==
    /\ w_resp.op = "update"
    /\ w_resp.status = "ok"
    /\ w_resp.id = 1
    /\ db[1].priority = 1
    /\ db[1].updated_at = 1
    /\ db[1].title = "t2"
    /\ db[1].stage = STAGE_PRELIMINARY

\* C30: POST /listings/import-url for a URL that already has a record
\* answers with the conflict status 400 and leaves the table as it was; in
\* every other case that does not fail it answers with the created record
C30_ImportConflict ==
    [][(w_req.op = "import" /\ w_pc' = "idle") =>
          /\ w_resp'.found # NoId =>
                /\ w_resp'.status = "400"
                /\ db' = db
          /\ (w_resp'.found = NoId /\ w_resp'.status # "500") =>
                /\ w_resp'.status = "created"
                /\ w_resp'.id = Len(db')
                /\ Len(db') = Len(db) + 1]_vars

\* ------------------------------------------------------------------------
\* The two loops of the bot process (Spec)
\* ------------------------------------------------------------------------

\* C25: a failure raised inside a scrape cycle or inside the handling of an
\* inbound update is followed by the delay and the loop test of its loop,
\* and a loop ends only when the stop signal is set
C25_FailureKeepsLoop ==
    [][/\ (t_pc = "raised" /\ t_pc' # t_pc) => t_pc' = "sleep"
       /\ (e_pc = "except" /\ e_pc' # e_pc) => e_pc' = "poll"
       /\ (t_pc # "done" /\ t_pc' = "done") => stop
       /\ (e_pc # "done" /\ e_pc' = "done") => stop]_vars

C25_Witness ==
    /\ ~stop
    /\ t_pc = "raised"
    /\ e_pc = "except"

\* C27: no scrape cycle of the timer task starts before a delay has ended
\* since the task started or since its previous cycle ended
C27_SleepBeforeCycle ==
    [][(t_pc = "loop" /\ t_pc' = "acquire") => t_slept]_vars

\* the part of C27 between two cycles: after a cycle has ended the next one
\* starts only after the delay
C27_SleepBetweenCycles ==
    [][(t_pc = "sleep" /\ t_pc' # t_pc) => (t_pc' = "loop" /\ t_slept')]_vars

C29_SeenNoRecord == t_note # NoNote /\ t_note.id = NoId

C29_SeenOtherStage ==
    t_note.id # NoId /\ t_note.stage # STAGE_PRELIMINARY

\* ------------------------------------------------------------------------
\* The bot process alone, with the scheduling of its event loop (SpecLive)
\* ------------------------------------------------------------------------

NextBot ==
    \/ TimerStep
    \/ EventStep
    \/ SetStop /\ UNCHANGED <<urlVars, seenVars, webVars, scrapeVars, snapVars>>

TimerAcquireStep ==
    TimerAcquire /\ TimerFrame /\ UNCHANGED <<t_snap, t_slept, t_note>>

EventMsgAcquireStep == EventMsgAcquire /\ EventFrame /\ UNCHANGED e_snap

EventCbAcquireStep == EventCbAcquire /\ EventFrame /\ UNCHANGED e_snap

\* the asyncio event loop runs every ready task, every awaited call returns
\* or raises, and asyncio.Lock wakes its waiters in arrival order
BotFairness ==
    /\ WF_vars(TimerStep)
    /\ WF_vars(EventStep)
    /\ SF_vars(TimerAcquireStep)
    /\ SF_vars(EventMsgAcquireStep)
    /\ SF_vars(EventCbAcquireStep)

SpecLive == Init /\ [][NextBot]_vars /\ BotFairness

\* C26: once the stop signal is set both tasks eventually end, and a timer
\* task that is at its delay or its loop test when the signal is set starts
\* no further scrape cycle
C26_StopEndsBothTasks ==
    /\ stop ~> (t_pc = "done" /\ e_pc = "done")
    /\ [][(stop /\ t_pc \in {"sleep", "loop"} /\ t_pc' # t_pc)
            => t_pc' \in {"loop", "done"}]_vars

C26_Witness ==
    /\ stop
    /\ t_pc = "sleep"
    /\ e_pc \in {"msg_acquire", "cb_acquire", "except"}

\* C28: the lock is held exactly while its holder is inside a locked
\* section, also after the cycle or the import has raised, and a task that
\* waits for the lock eventually holds it
C28_LockReleased ==
    /\ [](/\ lock = "timer" <=> t_pc \in TimerLocked
          /\ lock = "event" <=> e_pc \in EventLocked)
    /\ (t_pc = "acquire") ~> (lock = "timer")
    /\ (e_pc \in {"msg_acquire", "cb_acquire"}) ~> (lock = "event")

C28_Witness ==
    /\ t_pc = "raised"
    /\ lock = "timer"
    /\ e_pc \in {"msg_acquire", "cb_acquire"}

C28_ImportRaised ==
    /\ e_pc = "msg_release"
    /\ e_status = "raised"
    /\ t_pc = "acquire"

\* ------------------------------------------------------------------------
\* Commits of the bot process (SpecStored)
\* ------------------------------------------------------------------------

Last(seq) == seq[Len(seq)]

\* C31: at the commit of save_listing_to_db, update_listing_stage and
\* create_listing_from_url the table is left as it was exactly when the
\* caller gets the failure result (None, "error")
C31_FailedCommitRollsBack ==
    [][/\ (t_pc = "save_commit" /\ t_pc' # t_pc)
            => (Last(t_saved').id = NoId <=> db' = db)
       /\ (e_pc = "cb_commit" /\ e_pc' # e_pc)
            => (e_status' = "error" <=> db' = db)
       /\ (e_pc = "imp_commit" /\ e_pc' # e_pc /\ e_status' # "exists")
            => /\ e_status' = "error" <=> db' = db
               /\ e_status' = "error" <=> e_result' = NoId]_vars

C31_Witness ==
    /\ e_pc = "cb_release"
    /\ e_status = "error"
    /\ db \in StoredTables

C31_SaveFailed ==
    /\ t_pc = "send"
    /\ t_saved[1].id = NoId
    /\ e_pc = "msg_reply"
    /\ e_status = "error"

\* ------------------------------------------------------------------------
\* Reads of the seen-set file (SpecSeen)
\* ------------------------------------------------------------------------

\* C32: a process opens the seen-set file for reading at most once, and a
\* load_seen_listings() call made when the set is in memory, also after an
\* add or a clear, leaves the set as it is
C32_ReadAtMostOnce ==
    /\ [](s_reads <= 1)
    /\ [][(s_mem.loaded /\ s_hist'.op \in LoadOps) => s_mem' = s_mem]_vars

C32_Witness ==
    /\ s_reads = 1
    /\ s_hist.op = "add_write_failed_load"
    /\ s_file.exists
    /\ s_mem.urls # FileUrls(s_file)

C32_LoadAfterClear ==
    /\ s_reads = 1
    /\ s_hist.op = "clear_load"

\* ------------------------------------------------------------------------
\* Order of the steps of a scrape cycle (Spec)
\* ------------------------------------------------------------------------

\* C33: when a cycle sends, the save of every listing of the cycle has been
\* attempted; notifications are built and sent only in the sending phase,
\* and the cycle does not go back from sending to saving
C33_SaveAllThenSend ==
    /\ []((t_pc = "send") =>
             (/\ Len(t_saved) = Len(t_listings)
              /\ \A k \in 1..Len(t_saved) : t_saved[k].url = t_listings[k]))
    /\ [][/\ (sent' # sent \/ t_note' # t_note) => (t_pc = "send")
          /\ (t_pc = "send") => (t_pc' \in {"send", "release"})]_vars

C33_Witness ==
    /\ t_pc = "send"
    /\ t_i = 2
    /\ Len(t_saved) = 2
    /\ t_note # NoNote

\* ------------------------------------------------------------------------
\* Callback actions (Spec)
\* ------------------------------------------------------------------------

\* the id part of the callback data is a non-negative decimal integer
DecimalId(update) == update.kind = "promote"

\* the event task hands the first update of the batch to its handler
Dispatching == e_pc = "dispatch" /\ e_batch # <<>> /\ e_batch' # e_batch

\* the commit of update_listing_stage writes the row e_id only, and makes
\* its stage to_be_communicated
PromotesOnly ==
    (e_pc = "cb_commit" /\ e_pc' # e_pc /\ db' # db) =>
        /\ Len(db') = Len(db)
        /\ db'[e_id].stage = STAGE_TO_BE_COMMUNICATED
        /\ \A i \in Ids(db) : i # e_id => db'[i] = db[i]

\* C34: promote:<id> leads to one update_listing_stage(id,
\* to_be_communicated); a callback with another prefix or with an id part
\* that is not a non-negative decimal integer changes no record, and with
\* the promote prefix the latter is answered "Invalid action."
C34_CallbackPromotes ==
    [][/\ PromotesOnly
       /\ Dispatching =>
            LET update == Head(e_batch)
            IN  /\ DecimalId(update) =>
                       (e_pc' = "cb_acquire" /\ e_id' = update.id)
                /\ (update.kind # "message" /\ ~DecimalId(update)) =>
                       (db' = db /\ e_pc' # "cb_acquire")
                /\ (HasPrefix(update) /\ ~DecimalId(update)) =>
                       e_pc' = "cb_invalid"]_vars

\* the same without the answer to an id part that isdigit() accepts and
\* int() rejects
C34_ExceptDigitNotDecimal ==
    [][/\ PromotesOnly
       /\ Dispatching =>
            LET update == Head(e_batch)
            IN  /\ DecimalId(update) =>
                       (e_pc' = "cb_acquire" /\ e_id' = update.id)
                /\ (update.kind # "message" /\ ~DecimalId(update)) =>
                       (db' = db /\ e_pc' # "cb_acquire")
                /\ (HasPrefix(update) /\ ~isdigit(update)) =>
                       e_pc' = "cb_invalid"]_vars

\* ------------------------------------------------------------------------
\* Pagination URLs (SpecPages)
\* ------------------------------------------------------------------------

PagesFrame ==
    UNCHANGED <<urlVars, seenVars, botVars, webVars, snapVars, scrapeCoreVars,
                pollVars, sendVars>>

NextPages ==
    \/ paginate_call /\ PagesFrame
    \/ paginate_fetch /\ PagesFrame

PagesInit ==
    UrlIdle /\ SeenIdle /\ BotIdle /\ WebIdle /\ ScrapeIdle /\ SnapIdle

SpecPages == PagesInit /\ [][NextPages]_vars

\* C35: one call of scrape_all_pages fetches at most max_pages pages, the
\* k-th fetch is for page k, page 1 is fetched at the base URL itself and
\* page N > 1 at a URL whose last path segment is pagina-N.htm and whose
\* query string is the one of the base URL
C35_PagesInOrder ==
    /\ Len(g_fetched) <= max_pages
    /\ \A k \in 1..Len(g_fetched) :
          /\ g_fetched[k].page = k
          /\ k = 1 => g_fetched[k].url = g_base
          /\ k > 1 =>
                /\ Last(g_fetched[k].url.path) = Seg("pagina", k)
                /\ g_fetched[k].url.query = g_base.query

C35_Witness ==
    /\ Len(g_fetched) = max_pages
    /\ g_base.query # ""
    /\ Len(g_base.path) = MaxSegs
    /\ g_base.path[2].name = "pagina"
    /\ g_base.path[3].name = ""

\* stronger than C35: the fetches of one call go to pairwise different URLs
C35_NoUrlTwice ==
    \A j, k \in 1..Len(g_fetched) :
        j # k => g_fetched[j].url # g_fetched[k].url

\* ------------------------------------------------------------------------
\* Stages of the stored records (Spec)
\* ------------------------------------------------------------------------

\* C36: the stage of every row of the table is one of STAGE_VALUES
C36_StagesKnown ==
    \A i \in Ids(db) : db[i].stage \in STAGE_VALUES

\* the same for the rows written by the bot process and by update_stage,
\* delete and reorder: every row with another stage was created with it
C36_UnknownOnlyFromCreate ==
    [][\A i \in Ids(db') :
          db'[i].stage \notin STAGE_VALUES =>
             \/ i \in Ids(db) /\ db[i].stage = db'[i].stage
             \/ w_pc = "svc_commit"]_vars

\* ------------------------------------------------------------------------
\* A failed scrape (Spec)
\* ------------------------------------------------------------------------

\* C37: after scrape_all_pages has reported error_occurred the cycle only
\* returns and releases the lock: the timer task writes no row and sends
\* and builds no notification before that cycle has ended
C37_FailedScrapeDropsAll ==
    [][/\ (t_pc = "failed" /\ t_pc' # t_pc) =>
            (t_pc' = "release" /\ t_saved' = <<>> /\ db' = db
               /\ sent' = sent /\ t_note' = t_note)
       /\ (t_pc = "release" /\ t_pc' # t_pc) =>
            (t_pc' = "sleep" /\ db' = db /\ sent' = sent
               /\ t_note' = t_note)]_vars

C37_Witness ==
    /\ t_pc = "failed"
    /\ t_page = 2
    /\ t_listings # <<>>
    /\ \A k \in 1..Len(t_listings) : FirstByUrl(db, t_listings[k]) = NoId

\* ------------------------------------------------------------------------
\* The update offset (SpecPoll)
\* ------------------------------------------------------------------------

PollFrame ==
    UNCHANGED <<urlVars, seenVars, botVars, webVars, snapVars, scrapeCoreVars,
                pageVars, sendVars>>

GetUpdatesReturnsAll ==
    /\ u_pc = "poll"
    /\ u_batch' = CHOOSE b \in Deliverable(u_offset, u_arrived) :
                     \A c \in Deliverable(u_offset, u_arrived) : Len(c) <= Len(b)
    /\ u_batch' # <<>>
    /\ u_pc' = "next"
    /\ UNCHANGED <<u_arrived, u_offset, u_cur, u_handled>>
    /\ PollFrame

NextPoll ==
    \/ TelegramReceives /\ PollFrame
    \/ poll_get_updates /\ PollFrame
    \/ poll_next /\ PollFrame
    \/ poll_handle /\ PollFrame
    \/ poll_except /\ PollFrame

PollInit ==
    UrlIdle /\ SeenIdle /\ BotIdle /\ WebIdle /\ ScrapeIdle /\ SnapIdle

\* the event loop runs the polling task on; a get_updates call that could
\* return updates does so again and again
PollFairness ==
    /\ WF_vars(poll_next /\ PollFrame)
    /\ WF_vars(poll_handle /\ PollFrame)
    /\ WF_vars(poll_except /\ PollFrame)
    /\ SF_vars(GetUpdatesReturnsAll)

SpecPoll == PollInit /\ [][NextPoll]_vars /\ PollFairness

\* C38: the offset never decreases; the handler of an update is started at
\* most once; while a handler runs the offset is already past its update;
\* and every update that has arrived is handed to its handler at some time,
\* also when the handler of an earlier update of its batch has raised
C38_OffsetAdvancesFirst ==
    /\ [][u_offset' >= u_offset]_vars
    /\ [](\A id \in 1..MaxUpdates : u_handled[id] <= 1)
    /\ []((u_pc = "handle") => (u_offset = u_cur + 1))
    /\ \A id \in 1..MaxUpdates :
          (u_arrived >= id) ~> (u_handled[id] = 1)

C38_Witness ==
    /\ u_pc = "except"
    /\ u_arrived = MaxUpdates
    /\ u_offset = 2
    /\ u_handled[1] = 1
    /\ u_handled[2] = 0

\* ------------------------------------------------------------------------
\* Positions of created records (Spec)
\* ------------------------------------------------------------------------

\* a row that has received no UPDATE: stage and position are those it was
\* created with
AsCreated(i) == db[i].updated_at = 0

\* C39: no two records created in the same stage carry the same position,
\* whatever the interleaving of the bot process and the web process
C39_CreatedPositionsDistinct ==
    \A i, j \in Ids(db) :
        (i # j /\ AsCreated(i) /\ AsCreated(j) /\ db[i].stage = db[j].stage)
            => db[i].position # db[j].position

\* the same for creations that do not overlap: the table at the creator's
\* max-position query is the table at its commit
C39_DistinctWithoutOverlap ==
    [][/\ (t_pc = "save_commit" /\ t_pc' # t_pc /\ t_snap = db
             /\ C39_CreatedPositionsDistinct)
            => C39_CreatedPositionsDistinct'
       /\ (w_pc = "svc_commit" /\ w_pc' # w_pc /\ w_snap = db
             /\ C39_CreatedPositionsDistinct)
            => C39_CreatedPositionsDistinct']_vars

\* ------------------------------------------------------------------------
\* The sends of send_listings (SpecSend)
\* ------------------------------------------------------------------------

SendFrame ==
    UNCHANGED <<urlVars, seenVars, botVars, webVars, snapVars, scrapeCoreVars,
                pageVars, pollVars>>

NextSend ==
    \/ send_listings_call /\ SendFrame
    \/ send_listings_next /\ SendFrame
    \/ send_photo /\ SendFrame
    \/ send_message /\ SendFrame

SendInit ==
    UrlIdle /\ SeenIdle /\ BotIdle /\ WebIdle /\ ScrapeIdle /\ SnapIdle

SpecSend == SendInit /\ [][NextSend]_vars

\* the send calls made for listing k, in order
AttemptsOf(k) == SelectSeq(d_log, LAMBDA a : a.i = k)

\* one photo send that succeeded, one photo send that failed followed by one
\* text send, or one text send
OneAttempt(k) ==
    LET as == AttemptsOf(k)
        http == d_listings[k] = "http"
    IN  \/ http /\ Len(as) = 1 /\ as[1].via = "photo" /\ as[1].ok
        \/ http /\ Len(as) = 2 /\ as[1].via = "photo" /\ ~as[1].ok
                /\ as[2].via = "text"
        \/ ~http /\ Len(as) = 1 /\ as[1].via = "text"

\* C40: one call of send_listings goes through the listings in order; for
\* each it makes one attempt, a failed photo send being followed by one text
\* send for the same listing; a listing whose sends fail is followed by the
\* next one, and the call ends only after the last listing
C40_EveryListingOnce ==
    /\ \A a, b \in 1..Len(d_log) : a < b => d_log[a].i <= d_log[b].i
    /\ \A k \in 1..Len(d_listings) :
          /\ k < d_i => OneAttempt(k)
          /\ k > d_i => AttemptsOf(k) = <<>>
    /\ d_pc = "idle" => d_i = Len(d_listings) + 1

C40_Witness ==
    /\ d_pc = "idle"
    /\ Len(d_listings) = MaxSendBatch
    /\ d_listings[1] = "http"
    /\ Len(AttemptsOf(1)) = 2
    /\ ~AttemptsOf(1)[2].ok
    /\ Len(AttemptsOf(2)) = 1
    /\ AttemptsOf(3)[1].ok

====
